---- MODULE Spec2Model ----
(***************************************************************************)
(* A model of the generic invocation engine of the invoke tool:            *)
(*   - RealDubboClient.GenericInvoke and its response read loop,           *)
(*     error-phrase check and cleanResponse      (real_dubbo_client.go);   *)
(*   - the web server's concurrent handleInvoke requests (web_server.go);  *)
(*   - the parameter codec convertJSONNumber / formatSingleParameter;      *)
(*   - the registry address, the ZooKeeper catalog walk and provider       *)
(*     lookup, and the Nacos client;                                       *)
(*   - the text functions parseInvokeExpression, fixIncompleteJSON and     *)
(*     extractLargestJSON on their own;                                    *)
(*   - the StreamProcessor and the AsyncProcessor of a client, goroutine   *)
(*     by goroutine, and the clients that the web handlers make.           *)
(* Text is a sequence of one-character strings, so that substring search,  *)
(* trimming, splitting and JSON scanning are computed as the code does.    *)
(***************************************************************************)
EXTENDS Integers, Sequences, FiniteSets, TLC

(***************************************************************************)
(* Go's strings package, on sequences of characters.                       *)
(***************************************************************************)

\* F applied to the value of x: x is evaluated once, before F
Bind(x, F(_)) == CHOOSE r \in {F(v) : v \in {x}} : TRUE

\* s[from..to], empty when from > to
Sub(s, from, to) == IF from > to THEN << >> ELSE SubSeq(s, from, to)

\* whether pat occurs in s at position i
MatchAt(s, i, pat) ==
    /\ i >= 1
    /\ i + Len(pat) - 1 <= Len(s)
    /\ \A k \in 1..Len(pat) : s[i + k - 1] = pat[k]

\* strings.Index, 1-based; 0 when pat does not occur
RECURSIVE IndexFrom(_, _, _)
IndexFrom(s, i, pat) ==
    IF i + Len(pat) - 1 > Len(s) THEN 0
    ELSE IF MatchAt(s, i, pat) THEN i
    ELSE IndexFrom(s, i + 1, pat)

Index(s, pat) == IndexFrom(s, 1, pat)

\* strings.Contains
Contains(s, pat) == Index(s, pat) # 0

\* strings.HasPrefix / strings.HasSuffix
HasPrefix(s, pat) == MatchAt(s, 1, pat)
HasSuffix(s, pat) == MatchAt(s, Len(s) - Len(pat) + 1, pat)

\* strings.Split(s, sep)[0]: the text before the first occurrence of sep
SplitFirst(s, sep) ==
    Bind(Index(s, sep), LAMBDA p : IF p = 0 THEN s ELSE Sub(s, 1, p - 1))

\* the white space strings.TrimSpace removes (of the characters of the model)
TrimSet == {" ", "\n", "\r", "\t"}

RECURSIVE TrimLeft(_, _)
TrimLeft(s, i) == IF i <= Len(s) /\ s[i] \in TrimSet THEN TrimLeft(s, i + 1) ELSE i

RECURSIVE TrimRight(_, _)
TrimRight(s, i) == IF i >= 1 /\ s[i] \in TrimSet THEN TrimRight(s, i - 1) ELSE i

\* strings.TrimSpace
TrimSpace(s) == Sub(s, TrimLeft(s, 1), TrimRight(s, Len(s)))

(***************************************************************************)
(* encoding/json's scanner.  ValueEnd(s, i) is the position just after the *)
(* JSON value that starts at i (white space skipped), or 0 when the text   *)
(* from i on does not start with a value.                                  *)
(***************************************************************************)

JSONSpace == {" ", "\n", "\r", "\t"}
Digits == {"0", "1", "2", "3", "4", "5", "6", "7", "8", "9"}
HexDigits == Digits \cup {"a", "b", "c", "d", "e", "f", "A", "B", "C", "D", "E", "F"}
Escapes == {"\"", "\\", "/", "b", "f", "n", "r", "t"}

RECURSIVE SkipSpace(_, _)
SkipSpace(s, i) ==
    IF i <= Len(s) /\ s[i] \in JSONSpace THEN SkipSpace(s, i + 1) ELSE i

RECURSIVE SkipDigits(_, _)
SkipDigits(s, i) ==
    IF i <= Len(s) /\ s[i] \in Digits THEN SkipDigits(s, i + 1) ELSE i

\* stateInString: the position after the closing quote of the string whose
\* opening quote is at i - 1, or 0
RECURSIVE StringEnd(_, _)
StringEnd(s, i) ==
    IF i > Len(s) THEN 0
    ELSE IF s[i] = "\"" THEN i + 1
    ELSE IF s[i] = "\\" THEN
        IF i + 1 > Len(s) THEN 0
        ELSE IF s[i + 1] \in Escapes THEN StringEnd(s, i + 2)
        ELSE IF s[i + 1] = "u" THEN
            IF i + 5 <= Len(s) /\ \A k \in 2..5 : s[i + k] \in HexDigits
            THEN StringEnd(s, i + 6) ELSE 0
        ELSE 0
    ELSE IF s[i] \in {"\n", "\r", "\t"} THEN 0
    ELSE StringEnd(s, i + 1)

\* stateE, stateESign, stateE0: the exponent that may follow at b
ExponentEnd(s, b) ==
    IF b <= Len(s) /\ s[b] \in {"e", "E"} THEN
        Bind(IF b + 1 <= Len(s) /\ s[b + 1] \in {"+", "-"} THEN b + 2 ELSE b + 1,
             LAMBDA g : IF g <= Len(s) /\ s[g] \in Digits THEN SkipDigits(s, g) ELSE 0)
    ELSE b

\* stateDot, stateDot0: the fraction that may follow at a
FractionEnd(s, a) ==
    IF a <= Len(s) /\ s[a] = "." THEN
        (IF a + 1 <= Len(s) /\ s[a + 1] \in Digits
         THEN Bind(SkipDigits(s, a + 1), LAMBDA b : ExponentEnd(s, b))
         ELSE 0)
    ELSE ExponentEnd(s, a)

\* state0, state1: the integer part at d
IntegerEnd(s, d) ==
    IF d > Len(s) \/ s[d] \notin Digits THEN 0
    ELSE IF s[d] = "0" THEN FractionEnd(s, d + 1)
    ELSE Bind(SkipDigits(s, d), LAMBDA a : FractionEnd(s, a))

\* stateNeg: the position after the number that starts at i, or 0
NumberEnd(s, i) == IF s[i] = "-" THEN IntegerEnd(s, i + 1) ELSE IntegerEnd(s, i)

RECURSIVE ValueAt(_, _)
RECURSIVE ArrayRest(_, _)
RECURSIVE ObjectRest(_, _)

\* the position after the value that starts at i (white space skipped), or 0
ValueEnd(s, i) == Bind(SkipSpace(s, i), LAMBDA j : ValueAt(s, j))

\* after an element of an array: "," and another element, or "]"
ArrayRest(s, i) ==
    IF i = 0 THEN 0
    ELSE Bind(SkipSpace(s, i), LAMBDA j :
        IF j > Len(s) THEN 0
        ELSE IF s[j] = "]" THEN j + 1
        ELSE IF s[j] = "," THEN Bind(ValueEnd(s, j + 1), LAMBDA e : ArrayRest(s, e))
        ELSE 0)

\* after the key that ends before q: ":" and a value
MemberValue(s, q) ==
    IF q = 0 THEN 0
    ELSE Bind(SkipSpace(s, q), LAMBDA c :
        IF c > Len(s) THEN 0
        ELSE IF s[c] # ":" THEN 0
        ELSE ValueEnd(s, c + 1))

\* a key at i, ":" and a value
MemberEnd(s, i) ==
    Bind(SkipSpace(s, i), LAMBDA k :
        IF k > Len(s) THEN 0
        ELSE IF s[k] # "\"" THEN 0
        ELSE Bind(StringEnd(s, k + 1), LAMBDA q : MemberValue(s, q)))

\* after a member of an object: "," and another member, or "}"
ObjectRest(s, i) ==
    IF i = 0 THEN 0
    ELSE Bind(SkipSpace(s, i), LAMBDA j :
        IF j > Len(s) THEN 0
        ELSE IF s[j] = "}" THEN j + 1
        ELSE IF s[j] = "," THEN Bind(MemberEnd(s, j + 1), LAMBDA e : ObjectRest(s, e))
        ELSE 0)

\* the position after the value whose first character is at j, or 0
ValueAt(s, j) ==
    IF j > Len(s) THEN 0
    ELSE IF s[j] = "[" THEN
        Bind(SkipSpace(s, j + 1), LAMBDA k :
            IF k <= Len(s) /\ s[k] = "]" THEN k + 1
            ELSE Bind(ValueAt(s, k), LAMBDA e : ArrayRest(s, e)))
    ELSE IF s[j] = "{" THEN
        Bind(SkipSpace(s, j + 1), LAMBDA k :
            IF k <= Len(s) /\ s[k] = "}" THEN k + 1
            ELSE Bind(MemberEnd(s, k), LAMBDA e : ObjectRest(s, e)))
    ELSE IF s[j] = "\"" THEN StringEnd(s, j + 1)
    ELSE IF s[j] = "-" \/ s[j] \in Digits THEN NumberEnd(s, j)
    ELSE IF MatchAt(s, j, <<"n", "u", "l", "l">>) THEN j + 4
    ELSE IF MatchAt(s, j, <<"t", "r", "u", "e">>) THEN j + 4
    ELSE IF MatchAt(s, j, <<"f", "a", "l", "s", "e">>) THEN j + 5
    ELSE 0

\* json.NewDecoder(strings.NewReader(s)).Decode(&v) == nil: the text starts
\* with one JSON value; what follows the value is not read
DecodeOK(s) == Bind(s, LAMBDA t : ValueEnd(t, 1) # 0)

\* json.Unmarshal([]byte(s), &v) == nil: the whole text is one JSON value
UnmarshalOK(s) ==
    Bind(s, LAMBDA t :
        Bind(ValueEnd(t, 1), LAMBDA e : e # 0 /\ SkipSpace(t, e) = Len(t) + 1))

(***************************************************************************)
(* The markers and phrases of the Dubbo telnet console.                    *)
(***************************************************************************)

PromptMarker == <<"d", "u", "b", "b", "o", ">">>
ElapsedMarker == <<"e", "l", "a", "p", "s", "e", "d", ":">>
NullToken == <<"n", "u", "l", "l">>

\* the phrases GenericInvoke takes for a failed call
ErrorPhrases ==
    { <<"F", "a", "i", "l", "e", "d", " ", "t", "o", " ", "i", "n", "v", "o", "k", "e">>,
      <<"e", "r", "r", "o", "r">>,
      <<"N", "o", " ", "s", "u", "c", "h", " ", "s", "e", "r", "v", "i", "c", "e">>,
      <<"N", "o", " ", "p", "r", "o", "v", "i", "d", "e", "r">>,
      <<"S", "e", "r", "v", "i", "c", "e", " ", "n", "o", "t", " ", "f", "o", "u", "n", "d">> }

HasErrorPhrase(text) == \E p \in ErrorPhrases : Contains(text, p)

(***************************************************************************)
(* fixIncompleteJSON: cut a truncated array after its last closed object   *)
(* and close it with "]".                                                  *)
(***************************************************************************)

\* the position of the "}" that closed the last complete object, 0 if none
RECURSIVE LastCompleteIndex(_, _, _, _, _)
LastCompleteIndex(s, i, inObject, braceCount, last) ==
    IF i > Len(s) THEN last
    ELSE IF s[i] = "{" THEN
        (IF ~inObject THEN LastCompleteIndex(s, i + 1, TRUE, 1, last)
         ELSE LastCompleteIndex(s, i + 1, TRUE, braceCount + 1, last))
    ELSE IF s[i] = "}" /\ inObject THEN
        (IF braceCount = 1 THEN LastCompleteIndex(s, i + 1, FALSE, 0, i)
         ELSE LastCompleteIndex(s, i + 1, TRUE, braceCount - 1, last))
    ELSE LastCompleteIndex(s, i + 1, inObject, braceCount, last)

\* the code's index is 0-based: lastCompleteIndex > 0 is last > 1 here
fixIncompleteJSON(responseText) ==
    Bind(LastCompleteIndex(responseText, 1, FALSE, 0, 0), LAMBDA last :
        IF last > 1 /\ DecodeOK(Sub(responseText, 1, last) \o <<"]">>)
        THEN Sub(responseText, 1, last) \o <<"]">>
        ELSE << >>)

(***************************************************************************)
(* extractLargestJSON: the longest bracket-balanced or brace-balanced span *)
(* that the decoder accepts; arrays are collected before objects and the   *)
(* first of the longest candidates wins.                                   *)
(***************************************************************************)

\* the position where the delimiter count opened before j returns to 0, or 0
RECURSIVE MatchClose(_, _, _, _, _)
MatchClose(s, j, count, open, close) ==
    IF j > Len(s) THEN 0
    ELSE IF s[j] = open THEN MatchClose(s, j + 1, count + 1, open, close)
    ELSE IF s[j] = close THEN
        (IF count = 1 THEN j ELSE MatchClose(s, j + 1, count - 1, open, close))
    ELSE MatchClose(s, j + 1, count, open, close)

\* the candidate that starts at i, or the empty text when there is none
Candidate(s, i, open, close) ==
    IF s[i] # open THEN << >>
    ELSE Bind(MatchClose(s, i + 1, 1, open, close), LAMBDA j :
        IF j # 0 /\ DecodeOK(Sub(s, i, j)) THEN Sub(s, i, j) ELSE << >>)

\* the longest candidate from position i on, the first one on a tie, or best
RECURSIVE Longest(_, _, _, _, _)
Longest(s, i, open, close, best) ==
    IF i > Len(s) THEN best
    ELSE Bind(Candidate(s, i, open, close), LAMBDA c :
        Longest(s, i + 1, open, close, IF Len(c) > Len(best) THEN c ELSE best))

extractLargestJSON(responseText) ==
    Bind(Longest(responseText, 1, "[", "]", << >>), LAMBDA arrays :
        Longest(responseText, 1, "{", "}", arrays))

(***************************************************************************)
(* cleanResponse                                                           *)
(***************************************************************************)

\* strings.Split(s, "\n") from position i on
RECURSIVE SplitLinesFrom(_, _)
SplitLinesFrom(s, i) ==
    Bind(IndexFrom(s, i, <<"\n">>), LAMBDA p :
        IF p = 0 THEN <<Sub(s, i, Len(s))>>
        ELSE Bind(SplitLinesFrom(s, p + 1), LAMBDA rest : <<Sub(s, i, p - 1)>> \o rest))

SplitLines(s) == SplitLinesFrom(s, 1)

\* one line of the scan, already trimmed; found, startChar and built are
\* foundJSONStart, jsonStartChar and resultBuilder before the line.  The
\* result is what the scan returns at this line, or the three values after it.
ScanLine(line, found, startChar, built) ==
    IF \/ line = << >>
       \/ HasPrefix(line, ElapsedMarker)
       \/ HasPrefix(line, PromptMarker)
    THEN [ret |-> FALSE, found |-> found, startChar |-> startChar, built |-> built]
    ELSE IF ~found /\ (HasPrefix(line, <<"{">>) \/ HasPrefix(line, <<"[">>))
    THEN [ret |-> FALSE, found |-> TRUE, startChar |-> line[1], built |-> built \o line]
    ELSE IF /\ found
            /\ \/ startChar = "{" /\ HasSuffix(line, <<"}">>)
               \/ startChar = "[" /\ HasSuffix(line, <<"]">>)
            /\ DecodeOK(built \o line)
    THEN [ret |-> TRUE, val |-> built \o line]
    ELSE IF HasPrefix(line, <<"{">>) /\ HasSuffix(line, <<"}">>) /\ DecodeOK(line)
    THEN [ret |-> TRUE, val |-> line]
    ELSE IF HasPrefix(line, <<"[">>) /\ HasSuffix(line, <<"]">>) /\ DecodeOK(line)
    THEN [ret |-> TRUE, val |-> line]
    ELSE IF /\ HasPrefix(line, <<"\"">>) /\ HasSuffix(line, <<"\"">>)
            /\ Len(line) > 2 /\ DecodeOK(Sub(line, 2, Len(line) - 1))
    THEN [ret |-> TRUE, val |-> Sub(line, 2, Len(line) - 1)]
    ELSE [ret |-> FALSE, found |-> found, startChar |-> startChar,
          built |-> IF found THEN built \o line ELSE built]

\* the line-by-line scan of cleanResponse from line k on; the raw response is
\* returned when no line yields a result
RECURSIVE LineScan(_, _, _, _)
LineScan(raw, lines, k, st) ==
    IF k > Len(lines) THEN
        (IF st.found /\ DecodeOK(st.built) THEN st.built ELSE raw)
    ELSE Bind(ScanLine(TrimSpace(lines[k]), st.found, st.startChar, st.built),
              LAMBDA r : IF r.ret THEN r.val ELSE LineScan(raw, lines, k + 1, r))

\* PromptContent that leaves the white space around the content
PromptContentUntrimmed(responseText) ==
    Bind(SplitFirst(responseText, PromptMarker), LAMBDA content :
        IF Contains(content, ElapsedMarker)
        THEN SplitFirst(content, ElapsedMarker)
        ELSE content)

\* the content before the prompt, without the timing line
PromptContent(responseText) ==
    Bind(TrimSpace(SplitFirst(responseText, PromptMarker)), LAMBDA content :
        IF Contains(content, ElapsedMarker)
        THEN TrimSpace(SplitFirst(content, ElapsedMarker))
        ELSE content)

\* cleanResponse after its prompt branch
CleanNoPrompt(responseText) ==
    IF HasPrefix(TrimSpace(responseText), <<"[">>) /\ DecodeOK(responseText)
    THEN responseText
    ELSE IF /\ HasPrefix(TrimSpace(responseText), <<"[">>)
            /\ fixIncompleteJSON(responseText) # << >>
    THEN fixIncompleteJSON(responseText)
    ELSE Bind(extractLargestJSON(responseText), LAMBDA jsonResult :
        IF jsonResult # << >> THEN jsonResult
        ELSE Bind(SplitLines(responseText), LAMBDA lines :
            LineScan(responseText, lines, 1,
                     [ret |-> FALSE, found |-> FALSE, startChar |-> "", built |-> << >>])))

cleanResponse(responseText) ==
    IF Contains(responseText, PromptMarker)
    THEN Bind(PromptContent(responseText), LAMBDA content :
            IF content = NullToken THEN NullToken
            ELSE IF UnmarshalOK(content) THEN content
            ELSE CleanNoPrompt(responseText))
    ELSE CleanNoPrompt(responseText)

(***************************************************************************)
(* convertToUTF8: the GBK decoder of golang.org/x/text.  A byte below 0x80 *)
(* is the character itself; a lead byte takes the next byte with it when   *)
(* that byte is in the trail range 0x40..0x7E or 0x80..0xFE, and is        *)
(* replaced by U+FFFD otherwise.  The decoder replaces what it cannot      *)
(* decode and reports no error, so the GB18030 and the raw-text fallbacks  *)
(* of the code are never taken.                                            *)
(***************************************************************************)

GBKLead == "0xD6"
GBKTrail == "0xD0"
\* the one-byte characters of the model that lie in the trail range 0x40..0x7E
TrailRange ==
    {"a", "b", "c", "d", "e", "i", "l", "n", "o", "p", "r", "s", "u", "v", "x",
     "N", "[", "]", "{", "}"}

\* the decoded text of data from position i on, appended to out
RECURSIVE DecodeGBK(_, _, _)
DecodeGBK(data, i, out) ==
    IF i > Len(data) THEN out
    ELSE IF data[i] = GBKLead THEN
        (IF i + 1 <= Len(data) /\ data[i + 1] = GBKTrail
         THEN DecodeGBK(data, i + 2, Append(out, "U+4E2D"))
         ELSE IF i + 1 <= Len(data) /\ data[i + 1] \in TrailRange \cup {GBKLead}
         THEN DecodeGBK(data, i + 2, Append(out, "U+FFFD"))
         ELSE DecodeGBK(data, i + 1, Append(out, "U+FFFD")))
    ELSE IF data[i] = GBKTrail THEN DecodeGBK(data, i + 1, Append(out, "U+FFFD"))
    ELSE DecodeGBK(data, i + 1, Append(out, data[i]))

convertToUTF8(data) == DecodeGBK(data, 1, << >>)

(***************************************************************************)
(* What GenericInvoke returns: (payload, nil) or (nil, error).             *)
(***************************************************************************)

Success(payload) == [ok |-> TRUE, val |-> payload, err |-> "nil", text |-> << >>]
Failure(kind, text) == [ok |-> FALSE, val |-> << >>, err |-> kind, text |-> text]
NoResult == [ok |-> FALSE, val |-> << >>, err |-> "pending", text |-> << >>]

\* the check of the cleaned response: console output that is not JSON is no
\* valid response
CheckCleaned(cleanedResponse) ==
    IF /\ cleanedResponse # NullToken
       /\ \/ Contains(cleanedResponse, ElapsedMarker)
          \/ Contains(cleanedResponse, PromptMarker)
       /\ ~UnmarshalOK(cleanedResponse)
    THEN Failure("NoValidResponse", cleanedResponse)
    ELSE Success(cleanedResponse)

\* AfterLoop that does not look for an error phrase
AfterLoopNoErrorCheck(data) ==
    Bind(convertToUTF8(data), LAMBDA utf8ResponseText :
        Bind(cleanResponse(utf8ResponseText), LAMBDA cleanedResponse :
            CheckCleaned(cleanedResponse)))

\* GenericInvoke once the read loop has stopped with responseBuffer = data:
\* decode, look for an error phrase, clean, and reject console output
AfterLoop(data) ==
    Bind(convertToUTF8(data), LAMBDA utf8ResponseText :
        IF HasErrorPhrase(utf8ResponseText)
        THEN Failure("InvokeFailed", utf8ResponseText)
        ELSE Bind(cleanResponse(utf8ResponseText), LAMBDA cleanedResponse :
                CheckCleaned(cleanedResponse)))

\* the prompt and the timing marker are both in the text
HasBothMarkers(text) == Contains(text, PromptMarker) /\ Contains(text, ElapsedMarker)

\* the test of the read loop after each chunk
LoopBreak(responseText) ==
    Contains(responseText, PromptMarker) \/ Contains(responseText, ElapsedMarker)

(***************************************************************************)
(* ResponseCompletionDetector: the completion predicates the client        *)
(* defines.  The read loop of GenericInvoke does not call them.            *)
(***************************************************************************)

MsMarker == <<"m", "s", ".">>

\* the prompt together with the timing marker or the "ms." unit
hasProtocolCompletion(responseText) ==
    /\ Contains(responseText, PromptMarker)
    /\ Contains(responseText, ElapsedMarker) \/ Contains(responseText, MsMarker)

\* strings.LastIndex for a one-character pattern, 1-based; 0 when absent
RECURSIVE LastIndexFrom(_, _, _)
LastIndexFrom(s, i, ch) ==
    IF i < 1 THEN 0 ELSE IF s[i] = ch THEN i ELSE LastIndexFrom(s, i - 1, ch)

\* the text from the first open to the last close, or the empty text
PotentialSpan(s, open, close) ==
    Bind(Index(s, <<open>>), LAMBDA a :
        Bind(LastIndexFrom(s, Len(s), close), LAMBDA b :
            IF a # 0 /\ b > a THEN Sub(s, a, b) ELSE << >>))

\* from the first "[" to the last "]", else from the first "{" to the last "}"
extractPotentialJSON(responseText) ==
    IF PotentialSpan(responseText, "[", "]") # << >>
    THEN PotentialSpan(responseText, "[", "]")
    ELSE PotentialSpan(responseText, "{", "}")

hasValidJSONStructure(responseText) ==
    Bind(extractPotentialJSON(responseText), LAMBDA jsonContent :
        jsonContent # << >> /\ DecodeOK(jsonContent))

\* errorMarkers of the detector
ErrorMarkers ==
    { <<"F", "a", "i", "l", "e", "d", " ", "t", "o", " ", "i", "n", "v", "o", "k", "e">>,
      <<"N", "o", " ", "s", "u", "c", "h", " ", "s", "e", "r", "v", "i", "c", "e">>,
      <<"N", "o", " ", "p", "r", "o", "v", "i", "d", "e", "r">>,
      <<"C", "o", "n", "n", "e", "c", "t", "i", "o", "n", " ", "r", "e", "f", "u", "s", "e", "d">>,
      <<"T", "i", "m", "e", "o", "u", "t">>,
      <<"E", "x", "c", "e", "p", "t", "i", "o", "n">> }

hasErrorCompletion(responseText) == \E m \in ErrorMarkers : Contains(responseText, m)

\* strings.Replace(s, "dubbo>", "", -1) from position i on
RECURSIVE RemovePrompts(_, _, _)
RemovePrompts(s, i, out) ==
    IF i > Len(s) THEN out
    ELSE IF MatchAt(s, i, PromptMarker) THEN RemovePrompts(s, i + Len(PromptMarker), out)
    ELSE RemovePrompts(s, i + 1, Append(out, s[i]))

\* the prompt with nothing or with the null token before it
hasSpecialResponseCompletion(responseText) ==
    /\ Contains(responseText, PromptMarker)
    /\ TrimSpace(RemovePrompts(responseText, 1, << >>)) \in {NullToken, << >>}

isResponseComplete(responseText) ==
    \/ hasProtocolCompletion(responseText)
    \/ hasValidJSONStructure(responseText)
    \/ hasErrorCompletion(responseText)
    \/ hasSpecialResponseCompletion(responseText)

(***************************************************************************)
(* Bounds and program constants.                                           *)
(***************************************************************************)

\* the most segments a provider splits one response into
MaxChunks == 3
\* the most GenericInvoke calls made on one client
MaxCalls == 2
\* how many multiples of the call timeout a flooding provider is followed for
MaxMultiple == 2
\* the most requests the web server handles at the same time
MaxRequests == 2

\* tempBuffer := make([]byte, 4096)
ReadBufSize == 4096
\* initialTimeout := 30 * time.Second
InitialTimeout == 30
\* SetReadDeadline(time.Now().Add(2 * time.Second)) after each chunk
ShortTimeout == 2
\* cfg.Timeout = 3 * time.Second, the default call timeout
CallTimeout == 3
\* len(numStr) > 15
MaxNumberLen == 15

(***************************************************************************)
(* The environment: registries, services, providers and what a provider    *)
(* answers to an invoke command.                                           *)
(***************************************************************************)

RegistryKinds == {"zookeeper", "nacos", "dubbo", "direct"}
Services == {"pkg.SvcA", "pkg.SvcB"}
Methods == {"getX"}
\* the provider endpoint that registry resolution yields for a service
ProviderOf(svc) == IF svc = "pkg.SvcA" THEN "hostA:20880" ELSE "hostB:20880"
\* the endpoint named by a dubbo:// or direct:// registry address
DirectEndpoint == "hostA:20880"

NL == <<"\n">>
\* null\ndubbo>
RespNull == NullToken \o NL \o PromptMarker
\* 1\nelapsed:\ndubbo>
RespValue == <<"1">> \o NL \o ElapsedMarker \o NL \o PromptMarker
\* {"a":1}\ndubbo>
RespObject == <<"{", "\"", "a", "\"", ":", "1", "}">> \o NL \o PromptMarker
\* No provider<GBK character>[1]dubbo>
RespError ==
    <<"N", "o", " ", "p", "r", "o", "v", "i", "d", "e", "r">>
    \o <<GBKLead, GBKTrail>> \o <<"[", "1", "]">> \o PromptMarker
\* [{"a":1},{"b":2   (a truncated array, then the provider stalls)
RespTruncated ==
    <<"[", "{", "\"", "a", "\"", ":", "1", "}", ",", "{", "\"", "b", "\"", ":", "2">>
Responses == {RespNull, RespValue, RespObject, RespError, RespTruncated}
\* what a flooding provider keeps sending
Filler == <<"x">>

Requests == 1..MaxRequests

VARIABLES
    registry,        \* the protocol of config.Registry
    connected,       \* RealDubboClient.connected
    conn,            \* RealDubboClient.conn: 0 is nil, else an index of conns
    conns,           \* every provider connection dialled so far
    closedAt,        \* the number of calls made when Close returned, -1 before it
    pending,         \* bytes the provider has still to send on the connection
    sockbuf,         \* bytes that arrived on the connection and are not read
    flood,           \* the provider keeps sending filler for the current call
    callsLeft,       \* how many more calls the caller makes on the client
    segLimit,        \* how many segments the provider may use per call
    callNo,          \* the number of the current GenericInvoke call
    pc,              \* "idle", "reading", "returned", "panic"
    service,         \* serviceName of the current call
    responseBuffer,  \* responseBuffer of the read loop
    deadline,        \* the read deadline in force: "initial" or "short"
    reads,           \* how many conn.Read calls returned data in this call
    nsegs,           \* how many segments the provider has sent for the call
    bothAt,          \* the segment that brought both markers, 0 if none has yet
    elapsed,         \* seconds spent in conn.Read by this call
    fired,           \* "none", "timeout" (deadline fired) or "error" (read failed)
    state,           \* Idle, Sent, Assembling, Complete, TimedOut, ConnectionError
    ret,             \* what the call returned
    sentLog,         \* the commands written: call, service, connection; the answer of the last
    history,         \* WebServer.history
    handlers,        \* the goroutines of the web server, one for each request
    param,           \* a parameter or a result as json.Decoder with UseNumber decoded it
    stage,           \* the codec: "decoded", "converted", "formatted", "copied", "encoded"
    converted,       \* the value after convertJSONNumber
    formatted,       \* the parameter as formatSingleParameter wrote it
    safe,            \* the result after safeCopyValue
    encoded,         \* the data of the response as the encoder wrote it
    address,         \* config.Registry, the text of the registry address
    zk,              \* the znodes of the ZooKeeper registry and the nodes that fail to read
    client,          \* what the constructor of the client returned
    catalog,         \* what ListServices returned
    provider,        \* what getProviderFromZooKeeper returned
    nacos,           \* a NacosClient and the calls made on it
    tool,            \* a text function of the tool, its input and what it returned
    sp,              \* the StreamProcessor of a client: goroutine, context, channels
    ap,              \* the AsyncProcessor of a client: workers, dispatcher, queue
    served           \* the client that each request of the web server makes

clientVars == <<registry, connected, conn, conns, closedAt>>
callVars == <<callNo, service, responseBuffer, deadline, reads, elapsed, fired,
              state, ret, sentLog>>
providerVars == <<pending, sockbuf, flood, nsegs, bothAt>>
webVars == <<history, handlers>>
codecVars == <<param, stage, converted, formatted, safe, encoded>>
engineVars == <<clientVars, callVars, providerVars, callsLeft, segLimit, pc>>

registryVars == <<address, zk, client, catalog, provider>>
procVars == <<sp, ap, served>>
dirVars == <<registryVars, nacos, tool, procVars>>

vars == <<engineVars, webVars, codecVars, dirVars>>

(***************************************************************************)
(* The parameter codec.  A Go value is a record: its dynamic type, its     *)
(* text (a string's characters, a number's decimal text) and its items     *)
(* (an array's elements, a map's members in key order, a member's value).  *)
(* An integer has its width as decimal text: int64 does not fit the        *)
(* integers of the checker.                                                *)
(***************************************************************************)

NilValue == [kind |-> "nil", text |-> << >>, items |-> << >>]
NumberValue(s) == [kind |-> "json.Number", text |-> s, items |-> << >>]
StringValue(s) == [kind |-> "string", text |-> s, items |-> << >>]
Int64Value(s) == [kind |-> "int64", text |-> s, items |-> << >>]
Float64Value(s) == [kind |-> "float64", text |-> s, items |-> << >>]
ArrayValue(items) == [kind |-> "[]interface{}", text |-> << >>, items |-> items]
MemberValueOf(key, val) == [kind |-> "member", text |-> key, items |-> <<val>>]
MapValue(members) == [kind |-> "map[string]interface{}", text |-> << >>, items |-> members]

DigitSeq == <<"0", "1", "2", "3", "4", "5", "6", "7", "8", "9">>
DigitValue(c) == CHOOSE d \in 1..10 : DigitSeq[d] = c

\* the digits of a decimal integer text without its sign
Magnitude(s) == IF s # << >> /\ s[1] = "-" THEN Sub(s, 2, Len(s)) ELSE s

\* a < b for two digit texts without leading zeros
MagLess(a, b) ==
    \/ Len(a) < Len(b)
    \/ /\ Len(a) = Len(b)
       /\ \E i \in 1..Len(a) :
            /\ DigitValue(a[i]) < DigitValue(b[i])
            /\ \A j \in 1..(i - 1) : a[j] = b[j]

\* math.MaxInt64 and the magnitude of math.MinInt64
MaxInt64 == <<"9", "2", "2", "3", "3", "7", "2", "0", "3", "6", "8", "5", "4", "7", "7", "5", "8", "0", "7">>
MinInt64Magnitude == <<"9", "2", "2", "3", "3", "7", "2", "0", "3", "6", "8", "5", "4", "7", "7", "5", "8", "0", "8">>
\* 9007199254740991
SafeInteger == <<"9", "0", "0", "7", "1", "9", "9", "2", "5", "4", "7", "4", "0", "9", "9", "1">>

\* json.Number.Int64 succeeds: strconv.ParseInt(s, 10, 64) accepts the text
Int64OK(numStr) ==
    /\ Magnitude(numStr) # << >>
    /\ \A i \in 1..Len(Magnitude(numStr)) : Magnitude(numStr)[i] \in Digits
    /\ IF numStr[1] = "-"
       THEN ~MagLess(MinInt64Magnitude, Magnitude(numStr))
       ELSE ~MagLess(MaxInt64, Magnitude(numStr))

\* the int64 that ParseInt yields, as %v prints it
Int64Text(numStr) == IF numStr = <<"-", "0">> THEN <<"0">> ELSE numStr

\* intVal > 9007199254740991 || intVal < -9007199254740991
BeyondSafe(numStr) == MagLess(SafeInteger, Magnitude(numStr))

\* the last position of s that does not hold a "0"
RECURSIVE DropZeros(_, _)
DropZeros(s, i) == IF i >= 1 /\ s[i] = "0" THEN DropZeros(s, i - 1) ELSE i

\* json.Number.Float64 and %v, for a plain decimal d.f of few digits: the
\* shortest text that reads back as the same float64, which drops the zeros
\* that end the fraction and a fraction that is empty
Float64Text(numStr) ==
    Bind(Index(numStr, <<".">>), LAMBDA dot :
        IF dot = 0 THEN numStr
        ELSE Bind(DropZeros(numStr, Len(numStr)), LAMBDA last :
            IF last = dot THEN Sub(numStr, 1, dot - 1) ELSE Sub(numStr, 1, last)))

\* the json.Number case with no conversion: the number stays a json.Number
convertNumberKept(numStr) == NumberValue(numStr)

\* the json.Number case of convertJSONNumber
convertNumber(numStr) ==
    IF Len(numStr) > MaxNumberLen THEN StringValue(numStr)
    ELSE IF Int64OK(numStr) THEN
        (IF BeyondSafe(numStr) THEN StringValue(numStr)
         ELSE Int64Value(Int64Text(numStr)))
    ELSE Float64Value(Float64Text(numStr))

RECURSIVE convertJSONNumber(_)
convertJSONNumber(value) ==
    IF value.kind = "json.Number" THEN convertNumber(value.text)
    ELSE IF value.kind \in {"[]interface{}", "map[string]interface{}", "member"} THEN
        [value EXCEPT !.items = [i \in DOMAIN value.items |-> convertJSONNumber(value.items[i])]]
    ELSE value

\* the characters encoding/json escapes in a string
EscapeChar(c) ==
    IF c = "\"" THEN <<"\\", "\"">>
    ELSE IF c = "\\" THEN <<"\\", "\\">>
    ELSE IF c = "\n" THEN <<"\\", "n">>
    ELSE IF c = "\r" THEN <<"\\", "r">>
    ELSE IF c = "\t" THEN <<"\\", "t">>
    ELSE IF c = "<" THEN <<"\\", "u", "0", "0", "3", "c">>
    ELSE IF c = ">" THEN <<"\\", "u", "0", "0", "3", "e">>
    ELSE IF c = "&" THEN <<"\\", "u", "0", "0", "2", "6">>
    ELSE <<c>>

RECURSIVE EscapeFrom(_, _, _)
EscapeFrom(s, i, out) ==
    IF i > Len(s) THEN out ELSE EscapeFrom(s, i + 1, out \o EscapeChar(s[i]))

\* json.Marshal of a string
QuoteString(s) == <<"\"">> \o EscapeFrom(s, 1, << >>) \o <<"\"">>

\* strings.Join
RECURSIVE JoinFrom(_, _, _, _)
JoinFrom(texts, i, sep, out) ==
    IF i > Len(texts) THEN out
    ELSE JoinFrom(texts, i + 1, sep, IF i = 1 THEN texts[i] ELSE out \o sep \o texts[i])

Join(texts, sep) == JoinFrom(texts, 1, sep, << >>)

\* a < b for two keys, byte by byte; ByteOrder has the characters of the keys
\* in the order of their bytes
KeyLess(a, b) ==
    LET ByteOrder == <<"I", "a", "c", "d", "e", "g", "i", "l", "m", "n", "o", "p", "s", "y">>
    IN  \/ Len(a) < Len(b) /\ a = Sub(b, 1, Len(a))
        \/ \E i \in 1..Len(a) :
            /\ i <= Len(b)
            /\ Sub(a, 1, i - 1) = Sub(b, 1, i - 1)
            /\ \E x, y \in DOMAIN ByteOrder :
                x < y /\ ByteOrder[x] = a[i] /\ ByteOrder[y] = b[i]

\* the members of a map as encoding/json writes them: sorted by key
SortByKey(members) ==
    IF Len(members) <= 1 THEN members
    ELSE CHOOSE s \in [DOMAIN members -> {members[i] : i \in DOMAIN members}] :
        \A i, j \in DOMAIN members : i < j => KeyLess(s[i].text, s[j].text)

\* json.Marshal of a value: no white space, the members of a map in key order
RECURSIVE Marshal(_)
Marshal(v) ==
    IF v.kind = "nil" THEN NullToken
    ELSE IF v.kind = "string" THEN QuoteString(v.text)
    ELSE IF v.kind = "member" THEN QuoteString(v.text) \o <<":">> \o Marshal(v.items[1])
    ELSE IF v.kind = "[]interface{}" THEN
        <<"[">> \o Join([i \in DOMAIN v.items |-> Marshal(v.items[i])], <<",">>) \o <<"]">>
    ELSE IF v.kind = "map[string]interface{}" THEN
        Bind(SortByKey(v.items), LAMBDA ms :
            <<"{">> \o Join([i \in DOMAIN ms |-> Marshal(ms[i])], <<",">>) \o <<"}">>)
    ELSE v.text

\* "class":
ClassKey == <<"\"", "c", "l", "a", "s", "s", "\"", ":">>

\* json.Marshal(obj), with or without a class member
formatObjectParameter(obj) == Marshal(obj)

RECURSIVE formatSingleParameter(_)
formatSingleParameter(v) ==
    IF v.kind = "nil" THEN NullToken
    ELSE IF v.kind = "string" THEN
        (IF Contains(v.text, ClassKey) /\ DecodeOK(v.text) THEN v.text
         ELSE QuoteString(v.text))
    ELSE IF v.kind \in {"int64", "float64", "bool"} THEN v.text
    ELSE IF v.kind = "map[string]interface{}" THEN formatObjectParameter(v)
    ELSE IF v.kind = "[]interface{}" THEN
        \* formatArrayParameter
        (IF v.items = << >> THEN <<"[", "]">>
         ELSE <<"[">>
              \o Join([i \in DOMAIN v.items |-> formatSingleParameter(v.items[i])], <<",", " ">>)
              \o <<"]">>)
    ELSE Marshal(v)

\* the json.Number case of safeCopyValue; intVal >= 1000000000000000 is a
\* magnitude of 16 digits or more
safeCopyNumber(numStr) ==
    IF Int64OK(numStr) THEN
        (IF BeyondSafe(numStr) \/ Len(Magnitude(numStr)) > MaxNumberLen
         THEN StringValue(numStr)
         ELSE Int64Value(Int64Text(numStr)))
    ELSE Float64Value(Float64Text(numStr))

\* safeCopyValue; a float64 is a whole number when its text has no fraction,
\* and the float64 values met here are within int64
RECURSIVE safeCopyValue(_)
safeCopyValue(value) ==
    IF value.kind = "json.Number" THEN safeCopyNumber(value.text)
    ELSE IF value.kind = "float64" THEN
        (IF /\ ~Contains(value.text, <<".">>) /\ Int64OK(value.text)
            /\ (BeyondSafe(value.text) \/ Len(Magnitude(value.text)) > MaxNumberLen)
         THEN StringValue(value.text) ELSE value)
    ELSE IF value.kind = "int64" THEN
        (IF BeyondSafe(value.text) \/ Len(Magnitude(value.text)) > MaxNumberLen
         THEN StringValue(value.text) ELSE value)
    ELSE IF value.kind \in {"[]interface{}", "map[string]interface{}", "member"} THEN
        [value EXCEPT !.items = [i \in DOMAIN value.items |-> safeCopyValue(value.items[i])]]
    ELSE value

\* a string as an encoder with SetEscapeHTML(false) writes it
QuotePlain(s) ==
    <<"\"">>
    \o Join([i \in DOMAIN s |-> IF s[i] \in {"<", ">", "&"} THEN <<s[i]>> ELSE EscapeChar(s[i])],
            << >>)
    \o <<"\"">>

\* encoder.Encode of a value with SetEscapeHTML(false), without the line end
RECURSIVE Encode(_)
Encode(v) ==
    IF v.kind = "nil" THEN NullToken
    ELSE IF v.kind = "string" THEN QuotePlain(v.text)
    ELSE IF v.kind = "member" THEN QuotePlain(v.text) \o <<":">> \o Encode(v.items[1])
    ELSE IF v.kind = "[]interface{}" THEN
        <<"[">> \o Join([i \in DOMAIN v.items |-> Encode(v.items[i])], <<",">>) \o <<"]">>
    ELSE IF v.kind = "map[string]interface{}" THEN
        Bind(SortByKey(v.items), LAMBDA ms :
            <<"{">> \o Join([i \in DOMAIN ms |-> Encode(ms[i])], <<",">>) \o <<"}">>)
    ELSE v.text

\* the numbers of the parameters: small and large, signed, at the limits of
\* the 15 characters, of the safe integers and of int64
Numerals ==
    { <<"0">>,
      <<"7">>,
      <<"-", "7">>,
      <<"1", ".", "5">>,
      <<"9", "9", "9", "9", "9", "9", "9", "9", "9", "9", "9", "9", "9", "9", "9">>,
      <<"-", "9", "9", "9", "9", "9", "9", "9", "9", "9", "9", "9", "9", "9", "9">>,
      <<"-", "9", "9", "9", "9", "9", "9", "9", "9", "9", "9", "9", "9", "9", "9", "9">>,
      <<"1", "0", "0", "0", "0", "0", "0", "0", "0", "0", "0", "0", "0", "0", "0", "0">>,
      <<"9", "0", "0", "7", "1", "9", "9", "2", "5", "4", "7", "4", "0", "9", "9", "1">>,
      <<"9", "0", "0", "7", "1", "9", "9", "2", "5", "4", "7", "4", "0", "9", "9", "2">>,
      <<"-", "9", "0", "0", "7", "1", "9", "9", "2", "5", "4", "7", "4", "0", "9", "9", "2">>,
      <<"1", "9", "5", "4", "8", "9", "4", "7", "0", "5", "9", "2", "8", "8", "9", "2", "4", "5", "6">>,
      <<"9", "2", "2", "3", "3", "7", "2", "0", "3", "6", "8", "5", "4", "7", "7", "5", "8", "0", "7">>,
      <<"9", "2", "2", "3", "3", "7", "2", "0", "3", "6", "8", "5", "4", "7", "7", "5", "8", "0", "8">>,
      <<"1", "2", "3", "4", "5", "6", "7", "8", "9", "0", "1", "2", "3", "4", "5", "6", "7", "8", "9", "0", "1">> }

\* where the number stands in the parameter
Shapes == {"top", "array", "object", "arrayOfObject", "objectOfArray"}
IdKey == <<"i", "d">>

\* the parameter of the shape as the decoder with UseNumber yields it
ParamOf(shape, numeral) ==
    IF shape = "top" THEN NumberValue(numeral)
    ELSE IF shape = "array" THEN ArrayValue(<<NumberValue(numeral)>>)
    ELSE IF shape = "object" THEN MapValue(<<MemberValueOf(IdKey, NumberValue(numeral))>>)
    ELSE IF shape = "arrayOfObject" THEN
        ArrayValue(<<MapValue(<<MemberValueOf(IdKey, NumberValue(numeral))>>)>>)
    ELSE MapValue(<<MemberValueOf(IdKey, ArrayValue(<<NumberValue(numeral)>>))>>)

\* the value of a type hint
Hint == <<"c", "o", "m", ".", "x", ".", "R", "e", "q">>

\* objects that carry a type hint and one other field, as the decoder yields
\* them: a Go map has no order of its own
HintedObjects ==
    LET ClassName == <<"c", "l", "a", "s", "s">>
        FieldNames ==
            { <<"c", "o", "m", "p", "a", "n", "y", "I", "d">>,
              <<"a", "g", "e">>,
              <<"I", "d">>,
              <<"n", "a", "m", "e">> }
    IN  { MapValue(<<MemberValueOf(ClassName, StringValue(Hint)), MemberValueOf(f, v)>>) :
            f \in FieldNames, v \in {NumberValue(<<"1">>), StringValue(<<"a">>), NilValue} }

\* string arguments: plain, with a quote, with a backslash, with a line end,
\* with a character HTML escaping rewrites, with a character beyond ASCII,
\* empty, and three that hold "class":
StringArguments ==
    { StringValue(s) : s \in
        { <<"a", "b", "c">>,
          <<"a", "\"", "b">>,
          <<"a", "\\", "b">>,
          <<"a", "\n", "b">>,
          <<"a", "<", "b">>,
          <<"U+4E2D", "U+6587">>,
          << >>,
          <<"{">> \o ClassKey \o <<"\"", "a", "\"", "}">>,
          <<"7", " ">> \o ClassKey,
          <<"s", "a", "y", " ">> \o ClassKey \o <<" ", "h", "i">> } }

\* the codec has nothing to do
CodecOff ==
    /\ param = [shape |-> "top", numeral |-> <<"0">>, value |-> NilValue]
    /\ stage = "off" /\ converted = NilValue /\ formatted = << >>
    /\ safe = NilValue /\ encoded = << >>

(***************************************************************************)
(* The registry: the address of the configuration, the constructors of the *)
(* clients and the lookups in a ZooKeeper registry.  A text is a sequence  *)
(* of characters; a run of characters that no function looks into (a host  *)
(* name, a port, a service name) is one element of it.                     *)
(***************************************************************************)

\* an address without "://" taken for the address of a provider
parseRegistryURLLenient(url) ==
    [ok |-> TRUE, err |-> "nil", Protocol |-> <<"dubbo">>, Address |-> url]

\* parseRegistryURL, the same in RealDubboClient and in DubboClient:
\* strings.SplitN(url, "://", 2)
parseRegistryURL(url) ==
    Bind(Index(url, <<":", "/", "/">>), LAMBDA i :
        IF url = << >> THEN
            [ok |-> FALSE, err |-> "EmptyAddress", Protocol |-> << >>, Address |-> << >>]
        ELSE IF i = 0 THEN
            [ok |-> FALSE, err |-> "InvalidFormat", Protocol |-> << >>, Address |-> << >>]
        ELSE [ok |-> TRUE, err |-> "nil",
              Protocol |-> Sub(url, 1, i - 1), Address |-> Sub(url, i + 3, Len(url))])

\* the registry addresses of the configuration: of each kind that start
\* knows, of a kind it does not know, empty, and malformed
Addresses ==
    LET Sep == <<":", "/", "/">>
        Zk == <<"zk", ":", "2181">>
    IN  { << >>,
          <<"zookeeper">> \o Sep \o Zk,
          <<"nacos">> \o Sep \o <<"nacos", ":", "8848">>,
          <<"dubbo">> \o Sep \o <<"hostA", ":", "20880">>,
          <<"direct">> \o Sep \o <<"hostA", ":", "20880">>,
          <<"http">> \o Sep \o Zk,
          Sep \o Zk,
          Zk,
          <<"zookeeper", ":", "/">> \o Zk,
          <<"zookeeper", ":">> \o Zk,
          <<"zookeeper", "/", "/">> \o Zk }

\* the registration strings of providers as Dubbo writes them into ZooKeeper,
\* percent-encoded, each with the host and port it registers
Registrations ==
    LET Colon == <<"%", "3", "A">>
        Slash == <<"%", "2", "F">>
        Front == <<"d", "u", "b", "b", "o">> \o Colon \o Slash \o Slash
        Query == Slash \o <<"pkg.SvcA">> \o <<"%", "3", "F", "version", "%", "3", "D", "1.0.0">>
    IN  { [reg |-> Front \o <<"hostA">> \o Colon \o <<"20880">> \o Query,
           addr |-> <<"hostA", ":", "20880">>],
          [reg |-> Front \o <<"hostB">> \o Colon \o <<"20881">> \o Slash \o <<"pkg.SvcA">>,
           addr |-> <<"hostB", ":", "20881">>],
          [reg |-> Front \o <<"hostC">> \o Colon \o <<"20882">> \o Query
                   \o <<"%", "2", "6", "application", "%", "3", "D", "my", "+", "app">>,
           addr |-> <<"hostC", ":", "20882">>] }

\* the registration string read without url.QueryUnescape
parseProviderURLRaw(providerURL) ==
    IF HasPrefix(providerURL, <<"d", "u", "b", "b", "o", ":", "/", "/">>)
    THEN [ok |-> TRUE, err |-> "nil", addr |-> SplitFirst(Sub(providerURL, 9, Len(providerURL)), <<"/">>)]
    ELSE [ok |-> FALSE, err |-> "InvalidProviderURL", addr |-> << >>]

\* parseProviderURL: url.QueryUnescape, then the text between "dubbo://" and
\* the next "/"
parseProviderURL(providerURL) ==
    LET Coded == [c \in {<<"3", "A">>, <<"2", "F">>, <<"3", "F">>, <<"3", "D">>, <<"2", "6">>} |->
                    IF c = <<"3", "A">> THEN ":" ELSE IF c = <<"2", "F">> THEN "/"
                    ELSE IF c = <<"3", "F">> THEN "?" ELSE IF c = <<"3", "D">> THEN "=" ELSE "&"]
        RECURSIVE QueryUnescape(_, _)
        QueryUnescape(i, out) ==
            IF i > Len(providerURL) THEN [ok |-> TRUE, text |-> out]
            ELSE IF providerURL[i] = "+" THEN QueryUnescape(i + 1, Append(out, " "))
            ELSE IF providerURL[i] = "%" THEN
                (IF i + 2 <= Len(providerURL) /\ Sub(providerURL, i + 1, i + 2) \in DOMAIN Coded
                 THEN QueryUnescape(i + 3, Append(out, Coded[Sub(providerURL, i + 1, i + 2)]))
                 ELSE [ok |-> FALSE, text |-> << >>])
            ELSE QueryUnescape(i + 1, Append(out, providerURL[i]))
        Scheme == <<"d", "u", "b", "b", "o", ":", "/", "/">>
    IN  Bind(QueryUnescape(1, << >>), LAMBDA decoded :
            IF ~decoded.ok THEN [ok |-> FALSE, err |-> "UnescapeFailed", addr |-> << >>]
            ELSE IF HasPrefix(decoded.text, Scheme) THEN
                [ok |-> TRUE, err |-> "nil",
                 addr |-> SplitFirst(Sub(decoded.text, Len(Scheme) + 1, Len(decoded.text)), <<"/">>)]
            ELSE [ok |-> FALSE, err |-> "InvalidProviderURL", addr |-> << >>])

\* the walk that looks at the children of basePath only
scanZooKeeperServicesFlat(registryNodes, basePath) ==
    IF basePath \in registryNodes.broken THEN [ok |-> FALSE, services |-> << >>]
    ELSE IF basePath \notin DOMAIN registryNodes.tree THEN [ok |-> TRUE, services |-> << >>]
    ELSE Bind(registryNodes.tree[basePath], LAMBDA children :
        [ok |-> TRUE,
         services |-> Join(
            [k \in DOMAIN children |->
                IF (basePath \o <<children[k], "providers">>) \in DOMAIN registryNodes.tree
                   /\ (basePath \o <<children[k], "providers">>) \notin registryNodes.broken
                THEN <<children[k]>> ELSE << >>],
            << >>)])

\* the walk that gives up at the first node that fails to read
RECURSIVE scanZooKeeperServicesStrict(_, _)
scanZooKeeperServicesStrict(registryNodes, basePath) ==
    IF basePath \in registryNodes.broken THEN [ok |-> FALSE, services |-> << >>]
    ELSE IF basePath \notin DOMAIN registryNodes.tree THEN [ok |-> TRUE, services |-> << >>]
    ELSE Bind(registryNodes.tree[basePath], LAMBDA children :
        Bind([k \in DOMAIN children |->
                IF (basePath \o <<children[k], "providers">>) \in registryNodes.broken
                THEN [ok |-> FALSE, services |-> << >>]
                ELSE IF (basePath \o <<children[k], "providers">>) \in DOMAIN registryNodes.tree
                THEN [ok |-> TRUE, services |-> <<children[k]>>]
                ELSE scanZooKeeperServicesStrict(registryNodes, basePath \o <<children[k]>>)],
             LAMBDA found :
                IF \E k \in DOMAIN found : ~found[k].ok
                THEN [ok |-> FALSE, services |-> << >>]
                ELSE [ok |-> TRUE,
                      services |-> Join([k \in DOMAIN found |-> found[k].services], << >>)]))

\* scanZooKeeperServices: the services below basePath; a path is the sequence
\* of its node names, registry.tree has the children of each node that
\* exists, and a read of a node in registry.broken fails
RECURSIVE scanZooKeeperServices(_, _)
scanZooKeeperServices(registryNodes, basePath) ==
    IF basePath \in registryNodes.broken THEN [ok |-> FALSE, services |-> << >>]
    ELSE IF basePath \notin DOMAIN registryNodes.tree THEN [ok |-> TRUE, services |-> << >>]
    ELSE Bind(registryNodes.tree[basePath], LAMBDA children :
        [ok |-> TRUE,
         services |-> Join(
            [k \in DOMAIN children |->
                IF (basePath \o <<children[k], "providers">>) \in registryNodes.broken
                THEN << >>
                ELSE IF (basePath \o <<children[k], "providers">>) \in DOMAIN registryNodes.tree
                THEN <<children[k]>>
                ELSE scanZooKeeperServices(registryNodes, basePath \o <<children[k]>>).services],
            << >>)])

\* getProviderFromZooKeeper: the address of the first child of
\* /dubbo/<serviceName>/providers
getProviderFromZooKeeper(url, registryNodes, serviceName) ==
    LET servicePath == <<"dubbo", serviceName, "providers">>
        Fail(e) == [ok |-> FALSE, err |-> e, addr |-> << >>]
    IN  IF ~parseRegistryURL(url).ok THEN Fail("ParseRegistryFailed")
        ELSE IF servicePath \in registryNodes.broken THEN Fail("ReadFailed")
        ELSE IF servicePath \notin DOMAIN registryNodes.tree THEN Fail("NoSuchService")
        ELSE IF registryNodes.tree[servicePath] = << >> THEN Fail("NoProvider")
        ELSE parseProviderURL(registryNodes.tree[servicePath][1])

\* the ZooKeeper registries: with or without the base path /dubbo, with or
\* without the service pkg.SvcA and its providers, with or without another
\* node below the base path (a group that holds pkg.SvcB, or a node without
\* services), and with or without one node that fails to read
ZkRegistries ==
    LET Base == <<"dubbo">>
        SvcA == <<"dubbo", "pkg.SvcA">>
        Grp == <<"dubbo", "grp">>
        SvcB == <<"dubbo", "grp", "pkg.SvcB">>
        Cfg == <<"dubbo", "config">>
        Regs == {r.reg : r \in Registrations}
        ProviderLists ==
            {<< >>} \cup {<<a>> : a \in Regs}
            \cup {pair \in Regs \X Regs : pair[1] # pair[2]}
        TreeOf(hasA, provs, other) ==
            LET nodes ==
                    {Base}
                    \cup (IF hasA THEN {SvcA, SvcA \o <<"providers">>, SvcA \o <<"consumers">>}
                          ELSE {})
                    \cup (IF other = "group" THEN {Grp, SvcB, SvcB \o <<"providers">>}
                          ELSE IF other = "config" THEN {Cfg} ELSE {})
            IN  [p \in nodes |->
                    IF p = Base THEN
                        (IF hasA THEN <<"pkg.SvcA">> ELSE << >>)
                        \o (IF other = "group" THEN <<"grp">>
                            ELSE IF other = "config" THEN <<"config">> ELSE << >>)
                    ELSE IF p = SvcA THEN <<"consumers", "providers">>
                    ELSE IF p = SvcA \o <<"providers">> THEN provs
                    ELSE IF p = Grp THEN <<"pkg.SvcB">>
                    ELSE IF p = SvcB THEN <<"providers">>
                    ELSE IF p = SvcB \o <<"providers">> THEN
                        <<(CHOOSE r \in Registrations : r.addr[1] = "hostB").reg>>
                    ELSE << >>]
        Trees ==
            {[p \in {} |-> << >>]}
            \cup {TreeOf(FALSE, << >>, other) : other \in {"none", "group", "config"}}
            \cup {TreeOf(TRUE, provs, other) :
                    provs \in ProviderLists, other \in {"none", "group", "config"}}
    IN  {[tree |-> tr, broken |-> {}] : tr \in Trees}
        \cup {[tree |-> TreeOf(TRUE, provs, "group"), broken |-> {b}] :
                provs \in {<<a>> : a \in Regs}, b \in {Grp, SvcA \o <<"providers">>}}

\* no client is made, nothing is looked up
NoClient == [made |-> "no", impl |-> "none", connected |-> FALSE, err |-> "nil", attempts |-> 0]
NoLookup == [ok |-> FALSE, err |-> "pending", services |-> << >>, addr |-> << >>, of |-> ""]

(***************************************************************************)
(* The Nacos client.  The body of an HTTP response is the JSON value it    *)
(* holds, or a value of kind "invalid" when it is not JSON.                *)
(***************************************************************************)

\* how many times LoadAvailableServices is called on one client
MaxLoads == 2
\* the endpoints that GetNamespaces and GetServiceList try in turn
NamespaceVariants == 4
ServiceListVariants == 3

\* the value of the field of a JSON object, nil when the object has none
Field(obj, key) ==
    IF \E i \in DOMAIN obj.items : obj.items[i].text = <<key>>
    THEN obj.items[CHOOSE i \in DOMAIN obj.items : obj.items[i].text = <<key>>].items[1]
    ELSE NilValue

\* json.Unmarshal accepts v for a field of the Go type: a JSON null leaves
\* the field as it is
Fits(v, type) ==
    \/ v.kind = "nil"
    \/ type = "int" /\ v.kind = "json.Number" /\ Int64OK(v.text)
    \/ type = "string" /\ v.kind = "string"
    \/ type = "[]string" /\ v.kind = "[]interface{}"
        /\ \A i \in DOMAIN v.items : v.items[i].kind \in {"string", "nil"}

\* the configured namespaces: none, the default, two display names, an
\* identifier of Nacos
NacosNamespaces ==
    { << >>, <<"public">>, <<"dev">>, <<"qa">>,
      <<"0", "a", "1", "b", "2", "c", "3", "d", "-", "4", "e", "5", "f", "-",
        "6", "0", "7", "1", "-", "8", "2", "9", "3", "-",
        "a", "4", "b", "5", "c", "6", "d", "7", "e", "8", "f", "9">> }

\* what an endpoint of the namespace list answers: a status, and with the
\* status 200 a page that is not JSON or a list of namespaces, with or
\* without the display name dev
NamespaceResponses ==
    LET Entry(id, show) ==
            MapValue(<<MemberValueOf(<<"namespace">>, StringValue(<<id>>)),
                       MemberValueOf(<<"namespaceShowName">>, StringValue(<<show>>))>>)
        List(entries) ==
            MapValue(<<MemberValueOf(<<"code">>, NumberValue(<<"2", "0", "0">>)),
                       MemberValueOf(<<"data">>, ArrayValue(entries))>>)
    IN  { [status |-> 502, body |-> NilValue],
          [status |-> 200, body |-> [kind |-> "invalid", text |-> <<"<html>">>, items |-> << >>]],
          [status |-> 200, body |-> List(<<Entry("", "public"), Entry("id-of-dev", "dev")>>)],
          [status |-> 200, body |-> List(<<Entry("", "public")>>)] }

\* what an endpoint of the service list answers: no answer (status 0), a
\* status, and with the status 200 a page that is not JSON, the older
\* envelope, the newer one, or the newer one with a count that the older
\* one cannot take
ServiceListResponses ==
    LET Names(ns) == ArrayValue([i \in DOMAIN ns |-> StringValue(<<ns[i]>>)])
    IN  { [status |-> 0, body |-> NilValue],
          [status |-> 502, body |-> NilValue],
          [status |-> 200, body |-> [kind |-> "invalid", text |-> <<"<html>">>, items |-> << >>]],
          [status |-> 200, body |->
              MapValue(<<MemberValueOf(<<"count">>, NumberValue(<<"2">>)),
                         MemberValueOf(<<"doms">>, Names(<<"a.Svc", "b.Svc">>))>>)],
          [status |-> 200, body |->
              MapValue(<<MemberValueOf(<<"code">>, NumberValue(<<"0">>)),
                         MemberValueOf(<<"message">>, StringValue(<<"success">>)),
                         MemberValueOf(<<"data">>,
                            MapValue(<<MemberValueOf(<<"count">>, NumberValue(<<"2">>)),
                                       MemberValueOf(<<"services">>,
                                                     Names(<<"b.Svc", "c.Svc">>))>>))>>)],
          [status |-> 200, body |->
              MapValue(<<MemberValueOf(<<"code">>, NumberValue(<<"0">>)),
                         MemberValueOf(<<"count">>, StringValue(<<"1">>)),
                         MemberValueOf(<<"data">>,
                            MapValue(<<MemberValueOf(<<"count">>, NumberValue(<<"1">>)),
                                       MemberValueOf(<<"services">>,
                                                     Names(<<"c.Svc">>))>>))>>)] }

\* GetNamespaces on a body of status 200: json.Unmarshal into the struct of
\* code and data
parseNamespaces(body) ==
    LET data == Field(body, "data")
        ok == \/ body.kind = "nil"
              \/ /\ body.kind = "map[string]interface{}"
                 /\ Fits(Field(body, "code"), "int")
                 /\ \/ data.kind = "nil"
                    \/ /\ data.kind = "[]interface{}"
                       /\ \A i \in DOMAIN data.items :
                            \/ data.items[i].kind = "nil"
                            \/ /\ data.items[i].kind = "map[string]interface{}"
                               /\ Fits(Field(data.items[i], "namespace"), "string")
                               /\ Fits(Field(data.items[i], "namespaceShowName"), "string")
    IN  [ok |-> ok,
         data |-> IF ok /\ body.kind # "nil" /\ data.kind # "nil"
                  THEN [i \in DOMAIN data.items |->
                            [Namespace |-> Field(data.items[i], "namespace").text,
                             NamespaceShowName |->
                                Field(data.items[i], "namespaceShowName").text]]
                  ELSE << >>]

\* the namespace looked for among the identifiers, not the display names
MatchNamespaceById(namespaces, name) ==
    IF \E i \in DOMAIN namespaces : namespaces[i].Namespace = name
    THEN namespaces[CHOOSE i \in DOMAIN namespaces : namespaces[i].Namespace = name].Namespace
    ELSE name

\* the end of getRealNamespaceId: the identifier of the first namespace with
\* the display name, or the name when there is none
MatchNamespace(namespaces, name) ==
    IF \E i \in DOMAIN namespaces : namespaces[i].NamespaceShowName = name
    THEN namespaces[CHOOSE i \in DOMAIN namespaces :
                        /\ namespaces[i].NamespaceShowName = name
                        /\ \A j \in 1..(i - 1) : namespaces[j].NamespaceShowName # name
                   ].Namespace
    ELSE name

\* GetServiceList on a body of status 200: json.Unmarshal into
\* NacosServiceList, on its error into the struct of Nacos 2.x, and on the
\* error of both the empty list
parseServiceList(body) ==
    LET Texts(v) == IF v.kind = "nil" THEN << >> ELSE [i \in DOMAIN v.items |-> v.items[i].text]
        data == Field(body, "data")
        v1 == \/ body.kind = "nil"
              \/ /\ body.kind = "map[string]interface{}"
                 /\ Fits(Field(body, "count"), "int")
                 /\ Fits(Field(body, "doms"), "[]string")
        v2 == /\ body.kind = "map[string]interface{}"
              /\ Fits(Field(body, "code"), "int")
              /\ Fits(Field(body, "message"), "string")
              /\ \/ data.kind = "nil"
                 \/ /\ data.kind = "map[string]interface{}"
                    /\ Fits(Field(data, "count"), "int")
                    /\ Fits(Field(data, "services"), "[]string")
              /\ Field(body, "code").kind = "nil" \/ Field(body, "code").text = <<"0">>
    IN  IF v1 THEN [envelope |-> "v1",
                    Services |-> IF body.kind = "nil" THEN << >> ELSE Texts(Field(body, "doms"))]
        ELSE IF v2 THEN [envelope |-> "v2",
                         Services |-> IF data.kind = "nil" THEN << >>
                                      ELSE Texts(Field(data, "services"))]
        ELSE [envelope |-> "none", Services |-> << >>]

\* no NacosClient
NoNacos ==
    [Namespace |-> << >>, pc |-> "off", loads |-> 0, variant |-> 0,
     realId |-> << >>, nsRequests |-> 0, mappedAt |-> 0,
     nsLog |-> << >>, nsEnd |-> "none", listLog |-> << >>, listEnd |-> "none",
     sent |-> << >>, Services |-> << >>, next |-> 0, detailLog |-> << >>,
     detailSent |-> << >>, loaded |-> << >>, err |-> "nil"]

(***************************************************************************)
(* The call expression of the command line: service.method(arguments).     *)
(***************************************************************************)

\* what parseInvokeExpression returns when it finds no "(" or no ".":
\* "", "" and a nil slice
NoParse == [serviceName |-> << >>, methodName |-> << >>, params |-> << >>, isNil |-> TRUE]

\* parseParametersFromExpression, from the character at i on: the text is cut
\* at each comma that is outside quotes while both counts are 0
RECURSIVE ParametersFrom(_, _, _, _, _, _, _, _)
ParametersFrom(s, i, current, braceCount, bracketCount, inQuotes, escapeNext, params) ==
    IF i > Len(s) THEN
        (IF TrimSpace(current) # << >> THEN Append(params, TrimSpace(current)) ELSE params)
    ELSE IF escapeNext THEN
        ParametersFrom(s, i + 1, Append(current, s[i]), braceCount, bracketCount,
                       inQuotes, FALSE, params)
    ELSE IF s[i] = "\\" THEN
        ParametersFrom(s, i + 1, Append(current, s[i]), braceCount, bracketCount,
                       inQuotes, TRUE, params)
    ELSE Bind(IF s[i] = "\"" THEN ~inQuotes ELSE inQuotes, LAMBDA quoted :
        IF ~quoted /\ s[i] = "," /\ braceCount = 0 /\ bracketCount = 0 THEN
            ParametersFrom(s, i + 1, << >>, braceCount, bracketCount, quoted, FALSE,
                           IF TrimSpace(current) # << >>
                           THEN Append(params, TrimSpace(current)) ELSE params)
        ELSE ParametersFrom(s, i + 1, Append(current, s[i]),
                IF quoted THEN braceCount
                ELSE IF s[i] = "{" THEN braceCount + 1
                ELSE IF s[i] = "}" THEN braceCount - 1 ELSE braceCount,
                IF quoted THEN bracketCount
                ELSE IF s[i] = "[" THEN bracketCount + 1
                ELSE IF s[i] = "]" THEN bracketCount - 1 ELSE bracketCount,
                quoted, FALSE, params))

parseParametersFromExpression(paramsPart) ==
    Bind(TrimSpace(paramsPart), LAMBDA s :
        ParametersFrom(s, 1, << >>, 0, 0, FALSE, FALSE, << >>))

\* parseInvokeExpression: the service before the last "." of the text before
\* the first "(", the method after it, and the arguments after the "("
\* without a final ")"
parseInvokeExpression(expression) ==
    Bind(Index(expression, <<"(">>), LAMBDA parenIndex :
        IF parenIndex = 0 THEN NoParse
        ELSE Bind(LastIndexFrom(expression, parenIndex - 1, "."), LAMBDA lastDotIndex :
            IF lastDotIndex = 0 THEN NoParse
            ELSE Bind(IF expression[Len(expression)] = ")" /\ Len(expression) > parenIndex
                      THEN Sub(expression, parenIndex + 1, Len(expression) - 1)
                      ELSE Sub(expression, parenIndex + 1, Len(expression)),
                      LAMBDA paramsPart :
                [serviceName |-> Sub(expression, 1, lastDotIndex - 1),
                 methodName |-> Sub(expression, lastDotIndex + 1, parenIndex - 1),
                 params |-> IF TrimSpace(paramsPart) = << >> THEN << >>
                            ELSE parseParametersFromExpression(paramsPart),
                 isNil |-> FALSE])))

\* the call expressions given on the command line: well formed, with a
\* delimiter left open, with a delimiter closed that was not opened, with
\* delimiters inside a quoted string, and without "(" or without "."
Expressions ==
    LET Call(args) == <<"a", ".", "S", ".", "m", "(">> \o args \o <<")">>
    IN  { Call(<< >>),
          Call(<<"1">>),
          Call(<<"1", ",", " ", "\"", "x", "\"">>),
          Call(<<"{", "\"", "k", "\"", ":", "1", "}">>),
          Call(<<"{", "\"", "k", "\"", ":", "1", "}", ",", "[", "1", ",", "2", "]">>),
          Call(<<"\"", "x", ",", "}", "\"", ",", "2">>),
          Call(<<"\"", "\\", "\"", ",", "{", "\"">>),
          Call(<<"{", "\"", "k", "\"", ":", "1">>),
          Call(<<"{", "\"", "k", "\"", ":", "1", ",", "2">>),
          Call(<<"\"", "k", "\"", ":", "1", "}">>),
          Call(<<"[", "1", ",", "2">>),
          Call(<<"1", ",", "2", "]">>),
          Call(<<"1", "]", ",", "[", "2">>),
          Call(<<"{", "\"", "k", "\"", ":", "[", "1", "}", ",", "2">>),
          <<"a", ".", "S", ".", "m", "(", "1">>,
          <<"a", ".", "S", ".", "m">>,
          <<"m", "(", "1", ")">> }

\* the arrays of objects that a provider answers: plain, with an object in
\* an object, and with a brace in a string
Arrays ==
    { <<"[", "{", "\"", "a", "\"", ":", "1", "}", ",", "{", "\"", "b", "\"", ":", "2", "}", "]">>,
      <<"[", "{", "\"", "a", "\"", ":", "{", "\"", "c", "\"", ":", "1", "}", "}", ",",
        "{", "\"", "b", "\"", ":", "2", "}", "]">>,
      <<"[", "{", "\"", "a", "\"", ":", "1", "}", ",", "{", "\"", "b", "\"", ":", "\"", "}", "\"", "}", "]">> }

\* an array of objects cut anywhere before its closing bracket
TruncatedArrays == UNION {{Sub(a, 1, n) : n \in 1..(Len(a) - 1)} : a \in Arrays}

\* response texts with arrays and objects in them: alone, between other
\* text, one in the other, one after the other, not closed, and with a
\* bracket or a brace in a string
SpanTexts ==
    { <<"x">>,
      <<"[", "1", "]">>,
      <<"x", "[", "1", "]", "y", "{", "\"", "a", "\"", ":", "1", "}">>,
      <<"{", "\"", "a", "\"", ":", "[", "1", ",", "2", "]", "}">>,
      <<"[", "1", ",", "2", "]", "{", "\"", "a", "\"", ":", "1", "}">>,
      <<"{", "\"", "a", "\"", ":", "1", "}", "[", "1", ",", "2", ",", "3", "]">>,
      <<"[", "1", "]", "{", "}", " ", "[", "2", "]">>,
      <<"[", "[", "1", "]", ",", "[", "2", "]", "]">>,
      <<"[", "1", ",", "{", "\"", "a", "\"", ":", "1", "}">>,
      <<"[", "x", "]", "{", "x", "}">>,
      <<"[", "\"", "[", "\"", ",", "1", "]", " ", "]">>,
      <<"[", "\"", "]", "\"", ",", "1", "]">>,
      <<"{", "\"", "a", "\"", ":", "\"", "{", "\"", "}", " ", "}">> }
      \cup Responses

\* no text function is applied
NoTool == [fn |-> "none", input |-> << >>, pc |-> "off", out |-> << >>]

(***************************************************************************)
(* The background workers of a client: the StreamProcessor and the         *)
(* AsyncProcessor that NewRealDubboClient starts and Close stops.          *)
(***************************************************************************)

\* how many workers the AsyncProcessor has (optimizedConfig.WorkerCount)
WorkerCount == 2
\* how many tasks are submitted to the AsyncProcessor
MaxTasks == 2
\* how many results the goroutine of the StreamProcessor sends
MaxResults == 2
\* taskQueue: make(chan AsyncTask, workerCount*10)
QueuePerWorker == 10

Workers == 1..WorkerCount
Tasks == 1..MaxTasks

\* no StreamProcessor
NoStream ==
    [pc |-> "off", done |-> FALSE, processorClosed |-> FALSE, resultClosed |-> FALSE,
     result |-> "none", results |-> 0, stop |-> "off"]

\* no AsyncProcessor
NoAsync ==
    [done |-> FALSE, taskQueue |-> << >>, workerPool |-> << >>,
     worker |-> [w \in Workers |-> [pc |-> "off", task |-> 0]],
     dispatcher |-> [pc |-> "off", task |-> 0, to |-> 0],
     stop |-> "off", submits |-> << >>, called |-> {}]

\* no request has made a client
NoServed ==
    [r \in Requests |->
        [pc |-> "off", handler |-> "none", registry |-> "none", workers |-> "none",
         conn |-> "none", deferred |-> FALSE, outcome |-> "none"]]

ProcOff == sp = NoStream /\ ap = NoAsync /\ served = NoServed

\* no registry is looked at, no client is made
DirOff ==
    /\ address = << >> /\ zk = [tree |-> [p \in {} |-> << >>], broken |-> {}]
    /\ client = NoClient /\ catalog = NoLookup /\ provider = NoLookup
    /\ nacos = NoNacos /\ tool = NoTool
    /\ ProcOff

(***************************************************************************)
(* The web server: one goroutine for each request, all on one WebServer.   *)
(***************************************************************************)

\* what executeInvoke returns: a result or one of its errors
Outcomes == {"ok", "ParamError", "ConnectError", "InvokeError"}

NoHandler ==
    [pc |-> "idle", outcome |-> "none", seen |-> << >>, status |-> 0,
     contentType |-> "", body |-> << >>]

\* err.Error() of the error that executeInvoke returned: a text that no
\* function looks into
ErrorTextOf(outcome) == <<outcome>>

\* json.NewEncoder(w).Encode(InvokeResponse{...}): the fields in the order of
\* the struct, and a line end
EncodeInvokeResponse(success, data, error, message) ==
    <<"{", "\"", "s", "u", "c", "c", "e", "s", "s", "\"", ":">>
    \o (IF success THEN <<"t", "r", "u", "e">> ELSE <<"f", "a", "l", "s", "e">>)
    \o <<",", "\"", "d", "a", "t", "a", "\"", ":">> \o data
    \o <<",", "\"", "e", "r", "r", "o", "r", "\"", ":">> \o QuoteString(error)
    \o <<",", "\"", "m", "e", "s", "s", "a", "g", "e", "\"", ":">> \o QuoteString(message)
    \o <<",", "\"", "d", "u", "r", "a", "t", "i", "o", "n", "\"", ":", "0", "}", "\n">>

\* the web server handles no request
WebOff == history = << >> /\ handlers = [r \in Requests |-> NoHandler]

\* one request of handleInvoke up to the call of executeInvoke: an OPTIONS
\* request is answered at once, a body that does not decode is answered by
\* writeError, which leaves the status at 200
HandleInvokeDecode(r, method, decoded) ==
    /\ handlers[r].pc = "idle"
    /\ handlers' = [handlers EXCEPT ![r] =
          IF method = "OPTIONS"
          THEN [@ EXCEPT !.pc = "done", !.status = 200, !.contentType = "application/json"]
          ELSE IF ~decoded
          THEN [@ EXCEPT !.pc = "done", !.status = 200, !.contentType = "application/json",
                         !.body = EncodeInvokeResponse(FALSE, NullToken,
                                                       ErrorTextOf("DecodeError"), << >>)]
          ELSE [@ EXCEPT !.pc = "decoded"]]
    /\ UNCHANGED <<history, engineVars, codecVars, dirVars>>

HandleInvokeBegin ==
    \E r \in Requests, method \in {"POST", "OPTIONS"}, decoded \in BOOLEAN :
        HandleInvokeDecode(r, method, decoded)

\* executeInvoke: the parameters are parsed, a client of its own is made for
\* the request, called once and closed
ExecuteInvokeAs(r, outcome) ==
    /\ handlers[r].pc = "decoded"
    /\ handlers' = [handlers EXCEPT ![r] = [@ EXCEPT !.pc = "invoked", !.outcome = outcome]]
    /\ UNCHANGED <<history, engineVars, codecVars, dirVars>>

ExecuteInvoke == \E r \in Requests, outcome \in Outcomes : ExecuteInvokeAs(r, outcome)

\* ws.history = append(ws.history, history), first half: append reads the slice
AppendLoadOf(r) ==
    /\ handlers[r].pc = "invoked"
    /\ handlers' = [handlers EXCEPT ![r] = [@ EXCEPT !.pc = "appending", !.seen = history]]
    /\ UNCHANGED <<history, engineVars, codecVars, dirVars>>

AppendLoad == \E r \in Requests : AppendLoadOf(r)

\* second half: the slice that append built is stored in ws.history
AppendStoreOf(r) ==
    /\ handlers[r].pc = "appending"
    /\ history' = Append(handlers[r].seen,
                         [request |-> r, success |-> handlers[r].outcome = "ok"])
    /\ handlers' = [handlers EXCEPT ![r] = [@ EXCEPT !.pc = "stored"]]
    /\ UNCHANGED <<engineVars, codecVars, dirVars>>

AppendStore == \E r \in Requests : AppendStoreOf(r)

\* the response: 400 and the error text as plain text, or 200 and the
\* InvokeResponse of a call that returned null
RespondTo(r) ==
    /\ handlers[r].pc = "stored"
    /\ handlers' = [handlers EXCEPT ![r] =
          IF handlers[r].outcome = "ok"
          THEN [@ EXCEPT !.pc = "done", !.status = 200, !.contentType = "application/json",
                         !.body = EncodeInvokeResponse(TRUE, NullToken, << >>,
                                     <<"U+8C03", "U+7528", "U+6210", "U+529F">>)]
          ELSE [@ EXCEPT !.pc = "done", !.status = 400, !.contentType = "text/plain",
                         !.body = ErrorTextOf(handlers[r].outcome)]]
    /\ UNCHANGED <<history, engineVars, codecVars, dirVars>>

Respond == \E r \in Requests : RespondTo(r)

\* handleClearHistory, a POST request on a goroutine of its own
HandleClearHistory ==
    /\ history # << >>
    /\ history' = << >>
    /\ UNCHANGED <<handlers, engineVars, codecVars, dirVars>>

(***************************************************************************)
(* The client: NewRealDubboClient, GenericInvoke and Close, and the        *)
(* provider at the other end of the connection.                            *)
(***************************************************************************)

\* net.DialTimeout succeeded: a new connection, opened by call `by` (0 is the
\* constructor)
Dial(open, endpoint, by) ==
    Append(open, [endpoint |-> endpoint, openedBy |-> by, closed |-> FALSE])

\* no call is under way
CallIdle ==
    /\ pending = << >> /\ sockbuf = << >> /\ flood = FALSE
    /\ callNo = 0 /\ pc = "idle" /\ service = ""
    /\ responseBuffer = << >> /\ deadline = "initial" /\ reads = 0
    /\ nsegs = 0 /\ bothAt = 0 /\ elapsed = 0 /\ fired = "none"
    /\ state = "Idle" /\ ret = NoResult /\ sentLog = << >>

\* there is no client
EngineOff ==
    /\ registry = "direct" /\ connected = FALSE /\ conn = 0 /\ conns = << >>
    /\ closedAt = -1
    /\ callsLeft = 0 /\ segLimit = 1
    /\ CallIdle

\* NewRealDubboClient succeeded: start() has connected to the registry; a
\* dubbo:// or direct:// address is the provider itself and is dialled at
\* once.  The caller makes one call whose answer comes in up to MaxChunks
\* segments, or up to MaxCalls calls whose answers come in one segment each.
Init ==
    /\ registry \in RegistryKinds
    /\ connected = TRUE
    /\ closedAt = -1
    /\ IF registry \in {"dubbo", "direct"}
       THEN conns = Dial(<< >>, DirectEndpoint, 0) /\ conn = 1
       ELSE conns = << >> /\ conn = 0
    /\ \/ callsLeft = 1 /\ segLimit = MaxChunks
       \/ callsLeft = MaxCalls /\ segLimit = 1
    /\ CallIdle
    /\ WebOff
    /\ CodecOff
    /\ DirOff

\* a command written on a connection, and what the provider answers to it:
\* a text, or filler without end
Sent(call, svc, on, answer, endless) ==
    [call |-> call, service |-> svc, conn |-> on, answer |-> answer, endless |-> endless]

\* the log once another command is written: of the earlier commands it keeps
\* the call, the service and the connection, the answer of the last one only
Settled(log) == [i \in DOMAIN log |-> [log[i] EXCEPT !.answer = << >>, !.endless = FALSE]]

\* GenericInvoke returns without having written a command
ReturnEarly(kind) ==
    /\ pc' = "returned" /\ ret' = Failure(kind, << >>) /\ state' = "Idle"
    /\ UNCHANGED <<pending, sockbuf, flood, sentLog>>

\* the command is written on c.conn: a nil connection makes the call panic,
\* a failed write ends it, and else the provider has the command and the
\* answer it will send for it
WriteCommand(svc) ==
    IF conn' = 0 THEN
        /\ pc' = "panic" /\ ret' = NoResult /\ state' = "Idle"
        /\ UNCHANGED <<pending, sockbuf, flood, sentLog>>
    ELSE
        \/ ReturnEarly("WriteFailed")
        \/ /\ ~conns'[conn'].closed
           /\ pc' = "reading" /\ ret' = NoResult /\ state' = "Sent"
           /\ sockbuf' = sockbuf
           /\ \/ /\ flood' = TRUE /\ pending' = pending
                 /\ sentLog' = Append(Settled(sentLog), Sent(callNo + 1, svc, conn', << >>, TRUE))
              \/ \E answer \in Responses :
                    /\ flood' = FALSE /\ pending' = pending \o answer
                    /\ sentLog' = Append(Settled(sentLog), Sent(callNo + 1, svc, conn', answer, FALSE))

\* GenericInvoke from its entry to the first SetReadDeadline: the checks, the
\* resolution and the dial of a zookeeper client that has no connection yet,
\* and the write of the command
GenericInvokeSend(svc, meth) ==
    /\ pc \in {"idle", "returned"}
    /\ callsLeft > 0
    /\ callsLeft' = callsLeft - 1
    /\ callNo' = callNo + 1
    /\ service' = svc
    /\ responseBuffer' = << >> /\ deadline' = "initial" /\ reads' = 0
    /\ nsegs' = 0 /\ bothAt' = 0 /\ elapsed' = 0 /\ fired' = "none"
    /\ UNCHANGED <<registry, connected, closedAt, segLimit, webVars, codecVars, dirVars>>
    /\ IF ~connected THEN
           ReturnEarly("NotConnected") /\ UNCHANGED <<conn, conns>>
       ELSE IF svc = "" THEN
           ReturnEarly("EmptyService") /\ UNCHANGED <<conn, conns>>
       ELSE IF meth = "" THEN
           ReturnEarly("EmptyMethod") /\ UNCHANGED <<conn, conns>>
       ELSE IF registry = "zookeeper" /\ conn = 0 THEN
           \/ ReturnEarly("ResolveFailed") /\ UNCHANGED <<conn, conns>>
           \/ ReturnEarly("DialFailed") /\ UNCHANGED <<conn, conns>>
           \/ /\ conns' = Dial(conns, ProviderOf(svc), callNo + 1)
              /\ conn' = Len(conns) + 1
              /\ WriteCommand(svc)
       ELSE
           /\ UNCHANGED <<conn, conns>>
           /\ WriteCommand(svc)

GenericInvokeStart ==
    \E svc \in Services \cup {""}, meth \in Methods \cup {""} : GenericInvokeSend(svc, meth)

\* the provider sends the next n bytes of its answer as one segment, whether
\* or not the client still reads; the last segment it may use carries all the
\* rest, and so does a segment that no read of the call is left to see
ProviderSend ==
    /\ pc \in {"reading", "returned"} /\ pending # << >>
    /\ nsegs < segLimit
    /\ \E n \in 1..Len(pending) :
        /\ (nsegs + 1 = segLimit \/ pc = "returned") => n = Len(pending)
        /\ sockbuf' = sockbuf \o Sub(pending, 1, n)
        /\ pending' = Sub(pending, n + 1, Len(pending))
    /\ nsegs' = nsegs + 1
    /\ bothAt' = IF bothAt = 0 /\ HasBothMarkers(responseBuffer \o sockbuf')
                 THEN nsegs + 1 ELSE bothAt
    /\ UNCHANGED <<clientVars, callVars, flood, callsLeft, segLimit, pc, webVars, codecVars, dirVars>>

\* a flooding provider sends one more chunk of filler
ProviderFlood ==
    /\ pc = "reading" /\ flood /\ sockbuf = << >>
    /\ elapsed <= MaxMultiple * CallTimeout
    /\ sockbuf' = Filler
    /\ UNCHANGED <<clientVars, callVars, flood, callsLeft, segLimit, pc, pending, nsegs, bothAt,
                   webVars, codecVars, dirVars>>

\* the read loop has stopped: the rest of GenericInvoke
Finish(data, st) ==
    /\ pc' = "returned"
    /\ state' = st
    /\ ret' = AfterLoop(data)

\* conn.Read returns n > 0 bytes: they are appended, and the loop stops when
\* the text holds the prompt or the timing marker, else the short deadline is
\* set and the loop reads again.  A chunk takes one second to arrive.
ReadChunk ==
    /\ pc = "reading" /\ sockbuf # << >>
    /\ \E n \in {IF Len(sockbuf) < ReadBufSize THEN Len(sockbuf) ELSE ReadBufSize} :
       \E responseText \in {responseBuffer \o Sub(sockbuf, 1, n)} :
           /\ responseBuffer' = responseText
           /\ sockbuf' = Sub(sockbuf, n + 1, Len(sockbuf))
           /\ reads' = reads + 1
           /\ elapsed' = elapsed + 1
           /\ IF LoopBreak(responseText)
              THEN Finish(responseText, "Complete") /\ deadline' = deadline
              ELSE /\ pc' = "reading" /\ state' = "Assembling" /\ ret' = ret
                   /\ deadline' = "short"
    /\ UNCHANGED <<clientVars, pending, flood, callsLeft, segLimit, callNo,
                   service, nsegs, bothAt, fired, sentLog, webVars, codecVars, dirVars>>

\* ReadTimeout that reports a deadline with nothing read as a failed read
ReadTimeoutAsReadError ==
    /\ pc = "reading" /\ sockbuf = << >>
    /\ fired' = "timeout"
    /\ elapsed' = elapsed + (IF deadline = "initial" THEN InitialTimeout ELSE ShortTimeout)
    /\ IF Len(responseBuffer) > 0
       THEN Finish(responseBuffer, "Complete")
       ELSE /\ pc' = "returned" /\ state' = "ConnectionError"
            /\ ret' = Failure("ReadFailed", << >>)
    /\ UNCHANGED <<clientVars, pending, sockbuf, flood, callsLeft, segLimit, callNo,
                   service, responseBuffer, deadline, reads, nsegs, bothAt, sentLog,
                   webVars, codecVars, dirVars>>

\* conn.Read fails with a timeout: the read deadline fired with nothing to read
ReadTimeout ==
    /\ pc = "reading" /\ sockbuf = << >>
    /\ fired' = "timeout"
    /\ elapsed' = elapsed + (IF deadline = "initial" THEN InitialTimeout ELSE ShortTimeout)
    /\ IF Len(responseBuffer) > 0
       THEN Finish(responseBuffer, "Complete")
       ELSE /\ pc' = "returned" /\ state' = "TimedOut"
            /\ ret' = Failure("ReadTimeout", << >>)
    /\ UNCHANGED <<clientVars, pending, sockbuf, flood, callsLeft, segLimit, callNo,
                   service, responseBuffer, deadline, reads, nsegs, bothAt, sentLog,
                   webVars, codecVars, dirVars>>

\* conn.Read fails with another error: the connection was closed or reset
ReadError ==
    /\ pc = "reading" /\ sockbuf = << >>
    /\ fired' = "error"
    /\ IF Len(responseBuffer) > 0
       THEN Finish(responseBuffer, "Complete")
       ELSE /\ pc' = "returned" /\ state' = "ConnectionError"
            /\ ret' = Failure("ReadFailed", << >>)
    /\ UNCHANGED <<clientVars, pending, sockbuf, flood, callsLeft, segLimit, callNo,
                   service, responseBuffer, deadline, reads, nsegs, bothAt, elapsed, sentLog,
                   webVars, codecVars, dirVars>>

\* Close, called by the owner of the client between or after its calls: a
\* client that has a provider connection closes it and is no longer
\* connected, a client that has none is left as it is
Close ==
    /\ pc = "returned"
    /\ closedAt = -1
    /\ closedAt' = callNo
    /\ IF conn # 0
       THEN conns' = [conns EXCEPT ![conn].closed = TRUE] /\ connected' = FALSE
       ELSE UNCHANGED <<conns, connected>>
    /\ UNCHANGED <<registry, conn, callVars, providerVars, callsLeft, segLimit, pc,
                   webVars, codecVars, dirVars>>

Next ==
    \/ GenericInvokeStart
    \/ ProviderSend
    \/ ProviderFlood
    \/ ReadChunk
    \/ ReadTimeout
    \/ ReadError
    \/ Close

Spec == Init /\ [][Next]_vars

(***************************************************************************)
(* The web server on its own: MaxRequests requests of handleInvoke and the *)
(* clearing of the history, each on its goroutine.                         *)
(***************************************************************************)

InitWeb == WebOff /\ EngineOff /\ CodecOff /\ DirOff

NextWeb ==
    \/ HandleInvokeBegin
    \/ ExecuteInvoke
    \/ AppendLoad
    \/ AppendStore
    \/ Respond
    \/ HandleClearHistory

SpecWeb == InitWeb /\ [][NextWeb]_vars

(***************************************************************************)
(* The codec on its own: a parameter is decoded, converted by              *)
(* convertJSONNumber and written by formatSingleParameter.                 *)
(***************************************************************************)

InitCodec ==
    /\ \E shape \in Shapes, numeral \in Numerals :
        param = [shape |-> shape, numeral |-> numeral, value |-> ParamOf(shape, numeral)]
    /\ stage = "decoded" /\ converted = NilValue /\ formatted = << >>
    /\ safe = NilValue /\ encoded = << >>
    /\ EngineOff
    /\ WebOff
    /\ DirOff

\* params = convertJSONNumbers(paramArray), for one parameter
Convert ==
    /\ stage = "decoded"
    /\ converted' = convertJSONNumber(param.value)
    /\ stage' = "converted"
    /\ UNCHANGED <<param, formatted, safe, encoded, engineVars, webVars, dirVars>>

\* formatParameters(params), for one parameter
Format ==
    /\ stage = "converted"
    /\ formatted' = formatSingleParameter(converted)
    /\ stage' = "formatted"
    /\ UNCHANGED <<param, converted, safe, encoded, engineVars, webVars, dirVars>>

\* safeResult := safeCopyValue(result)
SafeCopy ==
    /\ stage = "converted"
    /\ safe' = safeCopyValue(converted)
    /\ stage' = "copied"
    /\ UNCHANGED <<param, converted, formatted, encoded, engineVars, webVars, dirVars>>

\* responseEncoder.Encode(response), the data of the response
EncodeResponse ==
    /\ stage = "copied"
    /\ encoded' = Encode(safe)
    /\ stage' = "encoded"
    /\ UNCHANGED <<param, converted, formatted, safe, engineVars, webVars, dirVars>>

\* processedData := safeCopyValue(testData): safeCopyValue on a value as the
\* decoder yields it, its numbers still json.Number
SafeCopyDecoded ==
    /\ stage = "converted"
    /\ safe' = safeCopyValue(param.value)
    /\ stage' = "copiedDecoded"
    /\ UNCHANGED <<param, converted, formatted, encoded, engineVars, webVars, dirVars>>

NextCodec == Convert \/ Format \/ SafeCopy \/ SafeCopyDecoded \/ EncodeResponse

\* the codec on an object with a type hint or on a string
InitFormat ==
    /\ \/ \E obj \in HintedObjects :
            param = [shape |-> "hinted", numeral |-> <<"0">>, value |-> obj]
       \/ \E str \in StringArguments :
            param = [shape |-> "string", numeral |-> <<"0">>, value |-> str]
    /\ stage = "decoded" /\ converted = NilValue /\ formatted = << >>
    /\ safe = NilValue /\ encoded = << >>
    /\ EngineOff
    /\ WebOff
    /\ DirOff

SpecFormat == InitFormat /\ [][NextCodec]_vars

(***************************************************************************)
(* The registry on its own: a client is constructed on a registry address, *)
(* and on a ZooKeeper registry it lists the services and looks up the      *)
(* provider of a service.                                                  *)
(***************************************************************************)

InitRegistry ==
    /\ address \in Addresses
    /\ IF parseRegistryURL(address).Protocol = <<"zookeeper">>
       THEN zk \in ZkRegistries
       ELSE zk = [tree |-> [p \in {} |-> << >>], broken |-> {}]
    /\ client = NoClient /\ catalog = NoLookup /\ provider = NoLookup
    /\ nacos = NoNacos /\ tool = NoTool
    /\ ProcOff
    /\ EngineOff
    /\ WebOff
    /\ CodecOff

\* NewRealDubboClient: start parses the address and connects to the registry
\* or to the provider; the connection is made or fails
NewRealDubboClient ==
    /\ client.made = "no"
    /\ \E url \in {parseRegistryURL(address)} :
        IF ~url.ok THEN
            client' = [NoClient EXCEPT !.made = "failed", !.impl = "real",
                                       !.err = "ParseRegistryFailed"]
        ELSE IF url.Protocol \in {<<"zookeeper">>, <<"nacos">>, <<"dubbo">>, <<"direct">>} THEN
            \E made \in BOOLEAN :
                client' = [made |-> IF made THEN "ok" ELSE "failed", impl |-> "real",
                           connected |-> made,
                           err |-> IF made THEN "nil" ELSE "ConnectFailed",
                           attempts |-> 1]
        ELSE client' = [NoClient EXCEPT !.made = "failed", !.impl = "real",
                                        !.err = "UnsupportedRegistry"]
    /\ UNCHANGED <<address, zk, catalog, provider, nacos, tool, procVars, engineVars, webVars, codecVars>>

\* NewDubboClient: initConfig parses the address, start connects to nothing
NewDubboClient ==
    /\ client.made = "no"
    /\ IF ~parseRegistryURL(address).ok
       THEN client' = [NoClient EXCEPT !.made = "failed", !.impl = "stub",
                                       !.err = "ParseRegistryFailed"]
       ELSE client' = [NoClient EXCEPT !.made = "ok", !.impl = "stub", !.connected = TRUE]
    /\ UNCHANGED <<address, zk, catalog, provider, nacos, tool, procVars, engineVars, webVars, codecVars>>

\* RealDubboClient.ListServices on a ZooKeeper registry
ListServices ==
    /\ client.made = "ok" /\ client.impl = "real"
    /\ parseRegistryURL(address).Protocol = <<"zookeeper">>
    /\ catalog = NoLookup
    /\ \E found \in {scanZooKeeperServices(zk, <<"dubbo">>)} :
        catalog' =
            IF ~client.connected THEN [NoLookup EXCEPT !.err = "NotConnected"]
            ELSE IF ~found.ok THEN [NoLookup EXCEPT !.err = "ScanFailed"]
            ELSE [NoLookup EXCEPT !.ok = TRUE, !.err = "nil", !.services = found.services]
    /\ UNCHANGED <<address, zk, client, provider, nacos, tool, procVars, engineVars, webVars, codecVars>>

\* getProviderFromZooKeeper(serviceName), as GenericInvoke calls it
GetProvider ==
    /\ client.made = "ok" /\ client.impl = "real"
    /\ parseRegistryURL(address).Protocol = <<"zookeeper">>
    /\ provider = NoLookup
    /\ \E svc \in Services : \E got \in {getProviderFromZooKeeper(address, zk, svc)} :
        provider' = [NoLookup EXCEPT !.ok = got.ok, !.err = got.err, !.addr = got.addr,
                                     !.of = svc]
    /\ UNCHANGED <<address, zk, client, catalog, nacos, tool, procVars, engineVars, webVars, codecVars>>

NextRegistry == NewRealDubboClient \/ NewDubboClient \/ ListServices \/ GetProvider

SpecRegistry == InitRegistry /\ [][NextRegistry]_vars

(***************************************************************************)
(* The Nacos client on its own: LoadAvailableServices is called on one     *)
(* client up to MaxLoads times; each HTTP request of it is a step.         *)
(***************************************************************************)

InitNacos ==
    /\ \E ns \in NacosNamespaces : nacos = [NoNacos EXCEPT !.Namespace = ns, !.pc = "idle"]
    /\ address = << >> /\ zk = [tree |-> [p \in {} |-> << >>], broken |-> {}]
    /\ client = NoClient /\ catalog = NoLookup /\ provider = NoLookup
    /\ tool = NoTool
    /\ ProcOff
    /\ EngineOff
    /\ WebOff
    /\ CodecOff

\* LoadAvailableServices calls GetServiceList, which calls
\* getRealNamespaceId: the default namespace and an identifier need no lookup
LoadAvailableServices ==
    /\ nacos.pc \in {"idle", "done"}
    /\ nacos.loads < MaxLoads
    /\ \E direct \in {\/ nacos.Namespace \in {<< >>, <<"public">>}
                      \/ Len(nacos.Namespace) > 30 /\ Contains(nacos.Namespace, <<"-">>)} :
        nacos' = [nacos EXCEPT
            !.loads = @ + 1, !.variant = 1,
            !.nsLog = << >>, !.nsEnd = "none", !.listLog = << >>, !.listEnd = "none",
            !.sent = << >>, !.Services = << >>, !.next = 0, !.detailLog = << >>,
            !.detailSent = << >>,
            !.loaded = << >>, !.err = "nil",
            !.realId = IF nacos.Namespace \in {<< >>, <<"public">>} THEN <<"public">>
                       ELSE nacos.Namespace,
            !.pc = IF direct THEN "listing" ELSE "namespaces"]
    /\ UNCHANGED <<registryVars, tool, procVars, engineVars, webVars, codecVars>>

\* one request of GetNamespaces, and the rest of getRealNamespaceId once a
\* response is accepted or the endpoints are exhausted
ProbeNamespaces ==
    /\ nacos.pc = "namespaces"
    /\ \E resp \in NamespaceResponses : \E parsed \in {parseNamespaces(resp.body)} :
        nacos' =
            IF resp.status = 200 /\ parsed.ok THEN
                [nacos EXCEPT
                    !.nsRequests = @ + 1, !.nsLog = Append(@, resp), !.nsEnd = "accepted",
                    !.realId = MatchNamespace(parsed.data, nacos.Namespace),
                    !.mappedAt = IF @ = 0 /\ MatchNamespace(parsed.data, nacos.Namespace)
                                            # nacos.Namespace
                                 THEN nacos.nsRequests + 1 ELSE @,
                    !.variant = 1, !.pc = "listing"]
            ELSE IF nacos.variant = NamespaceVariants THEN
                [nacos EXCEPT
                    !.nsRequests = @ + 1, !.nsLog = Append(@, resp), !.nsEnd = "failed",
                    !.realId = nacos.Namespace, !.variant = 1, !.pc = "listing"]
            ELSE [nacos EXCEPT
                    !.nsRequests = @ + 1, !.nsLog = Append(@, resp), !.variant = @ + 1]
    /\ UNCHANGED <<registryVars, tool, procVars, engineVars, webVars, codecVars>>

\* one request of GetServiceList, with the namespaceId it sends, and the
\* start of the loop of LoadAvailableServices once GetServiceList returns
ProbeServiceList ==
    /\ nacos.pc = "listing"
    /\ \E resp \in ServiceListResponses : \E parsed \in {parseServiceList(resp.body)} :
        nacos' =
            IF resp.status = 200 THEN
                [nacos EXCEPT
                    !.listLog = Append(@, resp), !.listEnd = "accepted",
                    !.sent = IF nacos.realId \in {<< >>, <<"public">>} THEN << >>
                             ELSE nacos.realId,
                    !.Services = parsed.Services,
                    !.next = 1,
                    !.pc = IF parsed.Services = << >> THEN "done" ELSE "details"]
            ELSE IF nacos.variant = ServiceListVariants THEN
                [nacos EXCEPT
                    !.listLog = Append(@, resp), !.listEnd = "failed",
                    !.sent = IF nacos.realId \in {<< >>, <<"public">>} THEN << >>
                             ELSE nacos.realId,
                    !.err = "ListFailed", !.pc = "done"]
            ELSE [nacos EXCEPT
                    !.listLog = Append(@, resp), !.variant = @ + 1,
                    !.sent = IF nacos.realId \in {<< >>, <<"public">>} THEN << >>
                             ELSE nacos.realId]
    /\ UNCHANGED <<registryVars, tool, procVars, engineVars, webVars, codecVars>>

\* the loop of LoadAvailableServices stops at the first failed detail request
GetServiceDetailAbort ==
    /\ nacos.pc = "details"
    /\ \E ok \in BOOLEAN :
        nacos' = [nacos EXCEPT
            !.detailLog = Append(@, ok),
            !.detailSent = nacos.Namespace,
            !.loaded = IF ok THEN Append(@, nacos.Services[nacos.next]) ELSE @,
            !.next = @ + 1,
            !.pc = IF nacos.next = Len(nacos.Services) \/ ~ok THEN "done" ELSE "details"]
    /\ UNCHANGED <<registryVars, tool, procVars, engineVars, webVars, codecVars>>

\* one turn of the loop of LoadAvailableServices: GetServiceDetail of the
\* next service sends nc.Namespace as the namespaceId, when it is not empty,
\* and succeeds or fails
GetServiceDetail ==
    /\ nacos.pc = "details"
    /\ \E ok \in BOOLEAN :
        nacos' = [nacos EXCEPT
            !.detailLog = Append(@, ok),
            !.detailSent = nacos.Namespace,
            !.loaded = IF ok THEN Append(@, nacos.Services[nacos.next]) ELSE @,
            !.next = @ + 1,
            !.pc = IF nacos.next = Len(nacos.Services) THEN "done" ELSE "details"]
    /\ UNCHANGED <<registryVars, tool, procVars, engineVars, webVars, codecVars>>

NextNacos == LoadAvailableServices \/ ProbeNamespaces \/ ProbeServiceList \/ GetServiceDetail

SpecNacos == InitNacos /\ [][NextNacos]_vars

SpecCodec == InitCodec /\ [][NextCodec]_vars

(***************************************************************************)
(* The background workers of one client on their own, from the moment      *)
(* NewRealDubboClient has started them: tasks are submitted, and Close      *)
(* stops the AsyncProcessor and then the StreamProcessor.  Each goroutine   *)
(* takes one step at a time; a select takes any of its ready cases.        *)
(***************************************************************************)

InitWorkers ==
    /\ sp = [NoStream EXCEPT !.pc = "select", !.stop = "no"]
    /\ ap = [NoAsync EXCEPT
                !.worker = [w \in Workers |-> [pc |-> "select", task |-> 0]],
                !.dispatcher.pc = "take", !.stop = "no"]
    /\ served = NoServed
    /\ address = << >> /\ zk = [tree |-> [p \in {} |-> << >>], broken |-> {}]
    /\ client = NoClient /\ catalog = NoLookup /\ provider = NoLookup
    /\ nacos = NoNacos /\ tool = NoTool
    /\ EngineOff
    /\ WebOff
    /\ CodecOff

\* processChunk: the chunk decodes as JSON or the result carries the error
processChunk(data) == IF DecodeOK(data) THEN "Data" ELSE "Error"

\* the goroutine of StartProcessing takes the case <-sp.ctx.Done() and returns
StreamSelectDone ==
    /\ sp.pc = "select" /\ sp.done
    /\ sp' = [sp EXCEPT !.pc = "returned"]
    /\ UNCHANGED <<ap, served, registryVars, nacos, tool, engineVars, webVars, codecVars>>

\* the goroutine takes the case data := <-sp.processorCh: nothing in the
\* program sends on the channel, so the receive is ready only once the
\* channel is closed, and yields nil; the chunk is processed
StreamSelectReceive ==
    /\ sp.pc = "select" /\ sp.processorClosed
    /\ sp.results < MaxResults
    /\ sp' = [sp EXCEPT !.pc = "send", !.result = processChunk(<< >>)]
    /\ UNCHANGED <<ap, served, registryVars, nacos, tool, engineVars, webVars, codecVars>>

\* sp.resultCh <- result: a send on a closed channel panics, and else the
\* result goes into the buffer of the channel and the loop goes round
StreamSend ==
    /\ sp.pc = "send"
    /\ sp' = IF sp.resultClosed THEN [sp EXCEPT !.pc = "panic"]
             ELSE [sp EXCEPT !.pc = "select", !.results = @ + 1, !.result = "none"]
    /\ UNCHANGED <<ap, served, registryVars, nacos, tool, engineVars, webVars, codecVars>>

\* StreamProcessor.Stop, its three statements: sp.cancel(), which Close
\* reaches when AsyncProcessor.Stop has returned
StreamStopCancel ==
    /\ sp.stop = "no" /\ ap.stop = "returned"
    /\ sp' = [sp EXCEPT !.done = TRUE, !.stop = "cancelled"]
    /\ UNCHANGED <<ap, served, registryVars, nacos, tool, engineVars, webVars, codecVars>>

\* close(sp.processorCh)
StreamStopCloseProcessor ==
    /\ sp.stop = "cancelled"
    /\ sp' = [sp EXCEPT !.processorClosed = TRUE, !.stop = "closing"]
    /\ UNCHANGED <<ap, served, registryVars, nacos, tool, engineVars, webVars, codecVars>>

\* close(sp.resultCh)
StreamStopCloseResult ==
    /\ sp.stop = "closing"
    /\ sp' = [sp EXCEPT !.resultClosed = TRUE, !.stop = "returned"]
    /\ UNCHANGED <<ap, served, registryVars, nacos, tool, engineVars, webVars, codecVars>>

\* SubmitTask: the select takes the send on taskQueue when the queue has
\* room, or the case <-ap.ctx.Done() when the context is cancelled, and the
\* default when neither is ready
SubmitTask ==
    /\ ap.stop # "off" /\ Len(ap.submits) < MaxTasks
    /\ \E result \in {"accepted", "closed", "full"} :
        /\ result = "accepted" => Len(ap.taskQueue) < WorkerCount * QueuePerWorker
        /\ result = "closed" => ap.done
        /\ result = "full" => ~ap.done /\ Len(ap.taskQueue) >= WorkerCount * QueuePerWorker
        /\ ap' = [ap EXCEPT
                    !.taskQueue = IF result = "accepted"
                                  THEN Append(@, Len(ap.submits) + 1) ELSE @,
                    !.submits = Append(@, [task |-> Len(ap.submits) + 1, result |-> result,
                                           afterStop |-> ap.stop = "returned"])]
    /\ UNCHANGED <<sp, served, registryVars, nacos, tool, engineVars, webVars, codecVars>>

\* worker: the case ap.workerPool <- taskChan of the outer select
WorkerRegister(w) ==
    /\ ap.worker[w].pc = "select" /\ Len(ap.workerPool) < WorkerCount
    /\ ap' = [ap EXCEPT !.workerPool = Append(@, w), !.worker[w].pc = "await"]
    /\ UNCHANGED <<sp, served, registryVars, nacos, tool, engineVars, webVars, codecVars>>

\* the worker that gives up only at the outer select
WorkerExitOuterOnly(w) ==
    /\ ap.worker[w].pc = "select" /\ ap.done
    /\ ap' = [ap EXCEPT !.worker[w].pc = "exited"]
    /\ UNCHANGED <<sp, served, registryVars, nacos, tool, engineVars, webVars, codecVars>>

\* worker: the case <-ap.ctx.Done() of the outer or of the inner select; the
\* worker returns and the deferred ap.wg.Done() runs
WorkerExit(w) ==
    /\ ap.worker[w].pc \in {"select", "await"} /\ ap.done
    /\ ap' = [ap EXCEPT !.worker[w].pc = "exited"]
    /\ UNCHANGED <<sp, served, registryVars, nacos, tool, engineVars, webVars, codecVars>>

\* processTask: the task is run and its callback is called, with the result
\* or with the timeout error
processTask(w) ==
    /\ ap.worker[w].pc = "run"
    /\ \E how \in {"done", "timeout"} :
        ap' = [ap EXCEPT !.called = @ \cup {[task |-> ap.worker[w].task, how |-> how]},
                         !.worker[w] = [pc |-> "select", task |-> 0]]
    /\ UNCHANGED <<sp, served, registryVars, nacos, tool, engineVars, webVars, codecVars>>

\* dispatcher: task := <-ap.taskQueue
DispatcherTake ==
    /\ ap.dispatcher.pc = "take" /\ ap.taskQueue # << >>
    /\ ap' = [ap EXCEPT !.taskQueue = Tail(@),
                        !.dispatcher = [pc |-> "getWorker", task |-> Head(ap.taskQueue), to |-> 0]]
    /\ UNCHANGED <<sp, served, registryVars, nacos, tool, engineVars, webVars, codecVars>>

\* dispatcher: workerChan := <-ap.workerPool
DispatcherGetWorker ==
    /\ ap.dispatcher.pc = "getWorker" /\ ap.workerPool # << >>
    /\ ap' = [ap EXCEPT !.workerPool = Tail(@),
                        !.dispatcher.pc = "hand", !.dispatcher.to = Head(ap.workerPool)]
    /\ UNCHANGED <<sp, served, registryVars, nacos, tool, engineVars, webVars, codecVars>>

\* dispatcher: workerChan <- task, which meets task := <-taskChan of the
\* worker that waits on the channel
DispatcherHand ==
    /\ ap.dispatcher.pc = "hand" /\ ap.worker[ap.dispatcher.to].pc = "await"
    /\ ap' = [ap EXCEPT !.worker[ap.dispatcher.to] = [pc |-> "run", task |-> ap.dispatcher.task],
                        !.dispatcher = [pc |-> "take", task |-> 0, to |-> 0]]
    /\ UNCHANGED <<sp, served, registryVars, nacos, tool, engineVars, webVars, codecVars>>

\* dispatcher: a case <-ap.ctx.Done() of one of its selects; it returns, and
\* the task it holds is dropped
DispatcherExit ==
    /\ ap.dispatcher.pc \in {"take", "getWorker", "hand"} /\ ap.done
    /\ ap' = [ap EXCEPT !.dispatcher.pc = "returned"]
    /\ UNCHANGED <<sp, served, registryVars, nacos, tool, engineVars, webVars, codecVars>>

\* AsyncProcessor.Stop: ap.cancel()
AsyncStopCancel ==
    /\ ap.stop = "no"
    /\ ap' = [ap EXCEPT !.done = TRUE, !.stop = "waiting"]
    /\ UNCHANGED <<sp, served, registryVars, nacos, tool, engineVars, webVars, codecVars>>

\* AsyncProcessor.Stop: ap.wg.Wait() returns when every worker has returned
AsyncStopWait ==
    /\ ap.stop = "waiting" /\ \A w \in Workers : ap.worker[w].pc = "exited"
    /\ ap' = [ap EXCEPT !.stop = "returned"]
    /\ UNCHANGED <<sp, served, registryVars, nacos, tool, engineVars, webVars, codecVars>>

NextWorkers ==
    \/ StreamSelectDone
    \/ StreamSelectReceive
    \/ StreamSend
    \/ StreamStopCancel
    \/ StreamStopCloseProcessor
    \/ StreamStopCloseResult
    \/ SubmitTask
    \/ \E w \in Workers : WorkerRegister(w)
    \/ \E w \in Workers : WorkerExit(w)
    \/ \E w \in Workers : processTask(w)
    \/ DispatcherTake
    \/ DispatcherGetWorker
    \/ DispatcherHand
    \/ DispatcherExit
    \/ AsyncStopCancel
    \/ AsyncStopWait

SpecWorkers == InitWorkers /\ [][NextWorkers]_vars

\* the Go scheduler runs every goroutine that can take a step, and a select
\* takes a case that is ready again and again at random, so the case
\* <-ctx.Done() is taken in the end
FairWorkers ==
    /\ \A w \in Workers :
          /\ WF_vars(WorkerRegister(w) \/ processTask(w))
          /\ SF_vars(WorkerExit(w))
    /\ WF_vars(DispatcherTake \/ DispatcherGetWorker \/ DispatcherHand)
    /\ SF_vars(DispatcherExit)
    /\ WF_vars(AsyncStopWait)

SpecWorkersLive == SpecWorkers /\ FairWorkers

(***************************************************************************)
(* The clients of the web server on their own: each request of             *)
(* handleInvoke, handleList or handleMethods makes a RealDubboClient,       *)
(* calls it and returns.                                                   *)
(***************************************************************************)

Handlers == {"handleInvoke", "handleList", "handleMethods"}

InitClients ==
    /\ served = [r \in Requests |-> [NoServed[r] EXCEPT !.pc = "idle"]]
    /\ sp = NoStream /\ ap = NoAsync
    /\ address = << >> /\ zk = [tree |-> [p \in {} |-> << >>], broken |-> {}]
    /\ client = NoClient /\ catalog = NoLookup /\ provider = NoLookup
    /\ nacos = NoNacos /\ tool = NoTool
    /\ EngineOff
    /\ WebOff
    /\ CodecOff

\* the handler calls NewRealDubboClient, which starts the StreamProcessor and
\* the AsyncProcessor and then calls start(): when start() fails the
\* constructor returns nil and the error, and the handler answers with the
\* error and returns; else the client is connected, with a provider
\* connection for dubbo:// and direct://, and handleInvoke (in executeInvoke)
\* and handleList defer its Close
HandlerNewClient(r) ==
    /\ served[r].pc = "idle"
    /\ \E handler \in Handlers, kind \in RegistryKinds, started \in BOOLEAN :
        served' = [served EXCEPT ![r] =
            IF ~started THEN
                [pc |-> "done", handler |-> handler, registry |-> kind,
                 workers |-> "running", conn |-> "none", deferred |-> FALSE,
                 outcome |-> "ConstructFailed"]
            ELSE
                [pc |-> "calling", handler |-> handler, registry |-> kind,
                 workers |-> "running",
                 conn |-> IF kind \in {"dubbo", "direct"} THEN "open" ELSE "none",
                 deferred |-> handler \in {"handleInvoke", "handleList"},
                 outcome |-> "none"]]
    /\ UNCHANGED <<sp, ap, registryVars, nacos, tool, engineVars, webVars, codecVars>>

\* the handler calls the client: GenericInvoke, ListServices or ListMethods
\* succeeds or fails; GenericInvoke on a zookeeper registry dials the
\* provider, and on a nacos registry it writes on no connection and panics
HandlerCall(r) ==
    /\ served[r].pc = "calling"
    /\ \E ok \in BOOLEAN, dialled \in BOOLEAN :
        /\ dialled => served[r].handler = "handleInvoke" /\ served[r].registry = "zookeeper"
        /\ (ok /\ served[r].handler = "handleInvoke" /\ served[r].registry = "zookeeper")
              => dialled
        /\ served' = [served EXCEPT ![r] =
              [@ EXCEPT
                 !.pc = "returning",
                 !.conn = IF dialled THEN "open" ELSE @,
                 !.outcome =
                    IF served[r].handler = "handleInvoke" /\ served[r].registry = "nacos"
                    THEN "panic" ELSE IF ok THEN "ok" ELSE "CallFailed"]]
    /\ UNCHANGED <<sp, ap, registryVars, nacos, tool, engineVars, webVars, codecVars>>

\* the handler returns, also by a panic: a deferred Close runs, stops the two
\* processors and closes the provider connection when there is one
HandlerReturn(r) ==
    /\ served[r].pc = "returning"
    /\ served' = [served EXCEPT ![r] =
          IF served[r].deferred
          THEN [@ EXCEPT !.pc = "done", !.workers = "stopped",
                         !.conn = IF @ = "open" THEN "closed" ELSE @]
          ELSE [@ EXCEPT !.pc = "done"]]
    /\ UNCHANGED <<sp, ap, registryVars, nacos, tool, engineVars, webVars, codecVars>>

NextClients ==
    \/ \E r \in Requests : HandlerNewClient(r)
    \/ \E r \in Requests : HandlerCall(r)
    \/ \E r \in Requests : HandlerReturn(r)

SpecClients == InitClients /\ [][NextClients]_vars

(***************************************************************************)
(* The text functions on their own: a call expression is parsed, a         *)
(* truncated array is repaired, the largest JSON span of a text is taken.  *)
(***************************************************************************)

InitText ==
    /\ \/ \E e \in Expressions :
            tool = [NoTool EXCEPT !.fn = "parseInvokeExpression", !.input = e, !.pc = "given"]
       \/ \E a \in TruncatedArrays :
            tool = [NoTool EXCEPT !.fn = "fixIncompleteJSON", !.input = a, !.pc = "given"]
       \/ \E s \in SpanTexts :
            tool = [NoTool EXCEPT !.fn = "extractLargestJSON", !.input = s, !.pc = "given"]
    /\ address = << >> /\ zk = [tree |-> [p \in {} |-> << >>], broken |-> {}]
    /\ client = NoClient /\ catalog = NoLookup /\ provider = NoLookup
    /\ nacos = NoNacos
    /\ ProcOff
    /\ EngineOff
    /\ WebOff
    /\ CodecOff

\* serviceName, methodName, params := parseInvokeExpression(expression)
ParseExpression ==
    /\ tool.fn = "parseInvokeExpression" /\ tool.pc = "given"
    /\ tool' = [tool EXCEPT !.pc = "done", !.out = parseInvokeExpression(tool.input)]
    /\ UNCHANGED <<registryVars, nacos, procVars, engineVars, webVars, codecVars>>

\* fixedJSON := c.fixIncompleteJSON(responseText)
RepairArray ==
    /\ tool.fn = "fixIncompleteJSON" /\ tool.pc = "given"
    /\ tool' = [tool EXCEPT !.pc = "done", !.out = fixIncompleteJSON(tool.input)]
    /\ UNCHANGED <<registryVars, nacos, procVars, engineVars, webVars, codecVars>>

\* jsonResult := c.extractLargestJSON(responseText)
ExtractLargest ==
    /\ tool.fn = "extractLargestJSON" /\ tool.pc = "given"
    /\ tool' = [tool EXCEPT !.pc = "done", !.out = extractLargestJSON(tool.input)]
    /\ UNCHANGED <<registryVars, nacos, procVars, engineVars, webVars, codecVars>>

NextText == ParseExpression \/ RepairArray \/ ExtractLargest

SpecText == InitText /\ [][NextText]_vars

(***************************************************************************)
(* The claims about GenericInvoke, checked under Spec.                     *)
(***************************************************************************)

\* C1: a call whose decoded response text holds an error phrase returns a
\* failure that carries the whole decoded text, also when the text holds a
\* JSON array or object that parses; the array or object is not returned.
C1_ErrorPhraseFails ==
    (/\ pc = "returned" /\ state = "Complete"
     /\ HasErrorPhrase(convertToUTF8(responseBuffer)))
    => ret = Failure("InvokeFailed", convertToUTF8(responseBuffer))

\* a call has returned on "No provider...[1]dubbo>": the text holds the error
\* phrase and the array [1]
C1_Witness ==
    /\ pc = "returned" /\ responseBuffer = RespError
    /\ extractLargestJSON(convertToUTF8(responseBuffer)) = <<"[", "1", "]">>
    /\ ret.err = "InvokeFailed"

\* C2: when the provider answers the call in three chunks and the prompt and
\* the timing marker are both among the arrived bytes only with the third
\* chunk, the read loop completes having read all three chunks, in at most
\* three reads: it has not stopped on the first or the second chunk.
C2_CompleteAfterThirdChunk ==
    (/\ callNo = 1 /\ pc = "returned" /\ fired = "none"
     /\ nsegs = 3 /\ pending = << >> /\ bothAt = 3)
    => (state = "Complete" /\ sockbuf = << >> /\ reads <= 3)

C4_ReadErrorSurfaced ==
    (/\ pc = "returned" /\ fired # "none" /\ responseBuffer # << >>
     /\ reads < 3
     /\ ~LoopBreak(responseBuffer)
     /\ ~isResponseComplete(responseBuffer)
     /\ ~HasErrorPhrase(responseBuffer))
    => (~ret.ok /\ ret.err \in {"ReadTimeout", "ReadFailed"})

\* C5: a call on which a read deadline fired returns a failure and its
\* connection is closed.
C5_DeadlineTearsDown ==
    (pc = "returned" /\ fired = "timeout")
    => (~ret.ok /\ conn # 0 /\ conns[conn].closed)

\* C6: the read loop does not go on once the time spent reading exceeds
\* MaxMultiple times the call timeout.
C6_ForcedCompletion ==
    pc = "reading" => elapsed <= MaxMultiple * CallTimeout

\* C7: a call that has read "null\ndubbo>" completed on the prompt, with no
\* deadline fired and no failed read, and returns "null" and no error.
C7_NullIsSuccess ==
    (pc = "returned" /\ responseBuffer = RespNull)
    => (state = "Complete" /\ fired = "none" /\ ret = Success(NullToken))

\* a call has read "null\ndubbo>" and returned a result
C7_Witness ==
    /\ pc = "returned" /\ responseBuffer = RespNull
    /\ ret.ok /\ ret # NoResult

\* C8: every command is written on a connection that was opened for its call
\* (or by the constructor of the client), and no two calls write on the same
\* connection.
C8_SessionPerCall ==
    /\ \A i \in DOMAIN sentLog :
          conns[sentLog[i].conn].openedBy \in {0, sentLog[i].call}
    /\ \A i, j \in DOMAIN sentLog : i < j => sentLog[i].conn # sentLog[j].conn

\* the bytes the provider sent in reply to the current call, if the call wrote
\* a command
OwnBytes(text) ==
    \A i \in DOMAIN sentLog :
        sentLog[i].call = callNo =>
            IF sentLog[i].endless
            THEN \A k \in DOMAIN text : <<text[k]>> = Filler
            ELSE HasPrefix(sentLog[i].answer, text)

\* C31: the response text of a call holds only bytes the provider sent in
\* reply to that call: what is left of an earlier call's answer is never read
\* into the response text of a later call.
C31_NoStaleResponse ==
    pc \in {"reading", "returned"} => OwnBytes(responseBuffer)

\* C35: once Close has returned the client is not connected, and a call made
\* after it returns the not-connected error, for every kind of registry and
\* with or without a provider connection.
C35_ClosedIsNotConnected ==
    closedAt >= 0 =>
        /\ ~connected
        /\ callNo > closedAt =>
              pc = "returned" /\ ret = Failure("NotConnected", << >>)

(***************************************************************************)
(* The claim about the web server, checked under SpecWeb.                  *)
(***************************************************************************)

\* the request is being handled and has read ws.history
HasReadHistory(r) == handlers[r].pc \in {"appending", "stored"}
\* the request is being handled and has written ws.history
HasWrittenHistory(r) == handlers[r].pc = "stored"

\* C9: of two requests that handleInvoke handles at the same time, none has
\* written a variable of the server that the other has read or written.
C9_NoSharedMutableState ==
    \A r1, r2 \in Requests :
        r1 # r2 => ~(HasWrittenHistory(r1) /\ HasReadHistory(r2))

(***************************************************************************)
(* The claim about the codec, checked under SpecCodec.                     *)
(***************************************************************************)

\* a decimal integer of more than 15 digits or beyond the safe integers
Oversized(numeral) ==
    /\ \A i \in 1..Len(Magnitude(numeral)) : Magnitude(numeral)[i] \in Digits
    /\ Len(Magnitude(numeral)) > 15 \/ MagLess(SafeInteger, Magnitude(numeral))

\* the parameter of the shape with the decimal text of the number in it
PlainText(shape, numeral) ==
    IF shape = "top" THEN numeral
    ELSE IF shape = "array" THEN <<"[">> \o numeral \o <<"]">>
    ELSE IF shape = "object" THEN <<"{">> \o QuoteString(IdKey) \o <<":">> \o numeral \o <<"}">>
    ELSE IF shape = "arrayOfObject" THEN
        <<"[", "{">> \o QuoteString(IdKey) \o <<":">> \o numeral \o <<"}", "]">>
    ELSE <<"{">> \o QuoteString(IdKey) \o <<":", "[">> \o numeral \o <<"]", "}">>

\* C10: a decimal integer of more than 15 digits or beyond the safe integers
\* that convertJSONNumber converted and formatSingleParameter wrote is written
\* as its own decimal text, at the top and inside arrays and objects.
C10_RoundTripIdentical ==
    (stage = "formatted" /\ Oversized(param.numeral))
    => formatted = PlainText(param.shape, param.numeral)

\* the number of the value of the shape
LeafOf(shape, v) ==
    IF shape = "top" THEN v
    ELSE IF shape = "array" THEN v.items[1]
    ELSE IF shape = "object" THEN v.items[1].items[1]
    ELSE v.items[1].items[1].items[1]

\* C11: convertJSONNumber returns a decimal integer numeral as an int64
\* exactly when its Int64 conversion succeeds, its value is within the safe
\* integers and it has at most 15 decimal digits, and returns every other one
\* as a string of its own text, at the top and inside arrays and objects.
C11_IntegerIffSafe ==
    (/\ stage = "converted"
     /\ \A i \in 1..Len(Magnitude(param.numeral)) : Magnitude(param.numeral)[i] \in Digits)
    => LeafOf(param.shape, converted) =
            IF /\ Int64OK(param.numeral) /\ ~BeyondSafe(param.numeral)
               /\ Len(Magnitude(param.numeral)) <= 15
            THEN Int64Value(Int64Text(param.numeral))
            ELSE StringValue(param.numeral)

\* C34: convertJSONNumber and safeCopyValue agree on every integer: one of
\* them returns the integer as a string exactly when the other does.
C34_ClassifiersAgree ==
    (/\ stage = "copiedDecoded" /\ param.shape \in Shapes
     /\ \A i \in 1..Len(Magnitude(param.numeral)) : Magnitude(param.numeral)[i] \in Digits)
    => (LeafOf(param.shape, converted).kind = "string"
            <=> LeafOf(param.shape, safe).kind = "string")

\* C12: in the data of a successful response every integer of more than 15
\* digits or beyond the safe integers is written as a string of its decimal
\* text, at the top and inside arrays and objects, never as a JSON number.
C12_OversizedAsString ==
    (stage = "encoded" /\ Oversized(param.numeral))
    => encoded = PlainText(param.shape, QuoteString(param.numeral))

\* the response carries 9223372036854775808, which no int64 holds, inside an
\* array of an object
C12_Witness ==
    /\ stage = "encoded" /\ param.shape = "objectOfArray"
    /\ param.numeral = MinInt64Magnitude
    /\ LeafOf(param.shape, safe).kind = "string"

(***************************************************************************)
(* The claims about the formatter, checked under SpecFormat.               *)
(***************************************************************************)

\* C13: an object that carries a type hint is written with "class" as its
\* first field and the hint as the value of that field, whatever the name of
\* its other field is.
C13_ClassFirst ==
    (stage = "formatted" /\ param.shape = "hinted")
    => HasPrefix(formatted, <<"{">> \o ClassKey \o QuoteString(Hint))

\* the character that an escape of one letter stands for
UnescapeChar(c) ==
    IF c = "n" THEN "\n" ELSE IF c = "r" THEN "\r" ELSE IF c = "t" THEN "\t" ELSE c

\* the character that the four hexadecimal digits stand for
UnescapeHex(h) ==
    IF h = <<"0", "0", "3", "c">> THEN "<"
    ELSE IF h = <<"0", "0", "3", "e">> THEN ">"
    ELSE IF h = <<"0", "0", "2", "6">> THEN "&"
    ELSE "?"

\* what a JSON parser reads from the string literal s, from position i on
RECURSIVE ReadBack(_, _, _)
ReadBack(s, i, out) ==
    IF i >= Len(s) THEN out
    ELSE IF s[i] = "\\" THEN
        (IF s[i + 1] = "u"
         THEN ReadBack(s, i + 6, Append(out, UnescapeHex(Sub(s, i + 2, i + 5))))
         ELSE ReadBack(s, i + 2, Append(out, UnescapeChar(s[i + 1]))))
    ELSE ReadBack(s, i + 1, Append(out, s[i]))

\* C14: a string argument is written as one quoted string literal from which
\* a JSON parser reads back the string, whatever the string holds.
C14_StringQuoted ==
    (stage = "formatted" /\ param.shape = "string")
    => /\ formatted # << >> /\ formatted[1] = "\""
       /\ StringEnd(formatted, 2) = Len(formatted) + 1
       /\ ReadBack(formatted, 2, << >>) = param.value.text

(***************************************************************************)
(* The claims about the registry, checked under SpecRegistry.              *)
(***************************************************************************)

\* the base path holds one service node, pkg.SvcA, with two providers, and
\* every node reads
OneServiceTwoProviders ==
    /\ zk.broken = {}
    /\ <<"dubbo">> \in DOMAIN zk.tree /\ zk.tree[<<"dubbo">>] = <<"pkg.SvcA">>
    /\ <<"dubbo", "pkg.SvcA", "providers">> \in DOMAIN zk.tree
    /\ Len(zk.tree[<<"dubbo", "pkg.SvcA", "providers">>]) = 2

\* C15: on a ZooKeeper registry whose base path holds one service node with
\* two providers, ListServices returns that one service, and the lookup of
\* its provider returns the host and port that the first registration string
\* registers.
C15_OneServiceFirstProvider ==
    OneServiceTwoProviders =>
        /\ catalog # NoLookup => (catalog.ok /\ catalog.services = <<"pkg.SvcA">>)
        /\ (provider # NoLookup /\ provider.of = "pkg.SvcA") =>
              /\ provider.ok
              /\ \E r \in Registrations :
                    /\ r.reg = zk.tree[<<"dubbo", "pkg.SvcA", "providers">>][1]
                    /\ provider.addr = r.addr

\* the services were listed and the provider looked up, and the first
\* registration string is the one of hostC, with an encoded query
C15_Witness ==
    /\ OneServiceTwoProviders
    /\ catalog.ok /\ catalog.services = <<"pkg.SvcA">>
    /\ provider.ok /\ provider.of = "pkg.SvcA"
    /\ provider.addr = <<"hostC", ":", "20882">>

\* C20: a constructor called on a registry address that is empty or has no
\* "://" returns no client and the error of the address, and has made no
\* attempt to connect.
C20_BadAddressRejected ==
    (/\ client.made # "no"
     /\ \/ address = << >>
        \/ ~\E i \in 1..(Len(address) - 2) :
              address[i] = ":" /\ address[i + 1] = "/" /\ address[i + 2] = "/")
    => /\ client.made = "failed" /\ client.err = "ParseRegistryFailed"
       /\ ~client.connected /\ client.attempts = 0

\* NewRealDubboClient has returned on the address zookeeper:/zk:2181
C20_Witness ==
    /\ client.made = "failed" /\ client.impl = "real"
    /\ address = <<"zookeeper", ":", "/", "zk", ":", "2181">>

(***************************************************************************)
(* The claims about the Nacos client, checked under SpecNacos.             *)
(***************************************************************************)

\* the response has the status 200 and a body in one of the two envelopes of
\* a service list: an object with doms, or an object with data.services
AcceptableList(resp) ==
    /\ resp.status = 200
    /\ resp.body.kind = "map[string]interface{}"
    /\ \/ Field(resp.body, "doms").kind = "[]interface{}"
       \/ /\ Field(resp.body, "data").kind = "map[string]interface{}"
          /\ Field(Field(resp.body, "data"), "services").kind = "[]interface{}"

\* the response has the status 200 and a body in the envelope of a namespace
\* list: an object with an array data
AcceptableNamespaces(resp) ==
    /\ resp.status = 200
    /\ resp.body.kind = "map[string]interface{}"
    /\ Field(resp.body, "data").kind = "[]interface{}"

\* the probing that made the requests of log and ended as end skipped each
\* response that is not acceptable, accepted none but an acceptable one, and
\* failed exactly when all n variants were tried and none was acceptable
ProbedInOrder(log, end, n, Acceptable(_)) ==
    /\ \A i \in 1..(Len(log) - 1) : ~Acceptable(log[i])
    /\ end = "accepted" => Acceptable(log[Len(log)])
    /\ end = "failed" <=> (Len(log) = n /\ \A i \in 1..n : ~Acceptable(log[i]))

\* C16: the probing of the service list and the probing of the namespace list
\* accept the first variant, in order, that answers 200 with a body in a
\* known envelope, skip a variant that answers otherwise, and fail exactly
\* when every variant has been tried without an acceptable answer.
C16_FirstAcceptableVariant ==
    /\ ProbedInOrder(nacos.listLog, nacos.listEnd, ServiceListVariants, AcceptableList)
    /\ ProbedInOrder(nacos.nsLog, nacos.nsEnd, NamespaceVariants, AcceptableNamespaces)

\* the identifier that the namespace list of the response gives the display
\* name, the name itself when the list has no such entry
IdentifierIn(resp, name) ==
    LET entries == Field(resp.body, "data").items
        hits == {i \in DOMAIN entries : Field(entries[i], "namespaceShowName").text = name}
    IN  IF hits = {} THEN name
        ELSE Field(entries[CHOOSE i \in hits : \A j \in hits : i <= j], "namespace").text

C18_NoSecondLookup ==
    nacos.mappedAt # 0 => nacos.nsRequests = nacos.mappedAt

\* C19: LoadAvailableServices has asked for the detail of every service of
\* the catalog and returns, in the order of the catalog, the services whose
\* detail request succeeded.
C19_FailedDetailOmitted ==
    (nacos.pc = "done" /\ nacos.listEnd = "accepted") =>
        /\ Len(nacos.detailLog) = Len(nacos.Services)
        /\ \E pick \in SUBSET DOMAIN nacos.Services :
            /\ pick = {i \in DOMAIN nacos.Services : nacos.detailLog[i]}
            /\ Len(nacos.loaded) = Cardinality(pick)
            /\ \A i \in pick :
                nacos.loaded[Cardinality({j \in pick : j <= i})] = nacos.Services[i]

\* the detail request of the first of two services failed and the one of the
\* second succeeded
C19_Witness ==
    /\ nacos.pc = "done"
    /\ nacos.Services = <<<<"a.Svc">>, <<"b.Svc">>>>
    /\ nacos.detailLog = <<FALSE, TRUE>>
    /\ nacos.loaded = <<<<"b.Svc">>>>

(***************************************************************************)
(* The claims about the answers of the web server, checked under SpecWeb.  *)
(***************************************************************************)

\* the body is one JSON object that has success false and the error text
IsFailureResponse(body, error) ==
    /\ UnmarshalOK(body)
    /\ HasPrefix(body, <<"{">>)
    /\ Contains(body, <<"\"", "s", "u", "c", "c", "e", "s", "s", "\"", ":", "f", "a", "l", "s", "e">>)
    /\ error # << >>
    /\ Contains(body, <<"\"", "e", "r", "r", "o", "r", "\"", ":">> \o QuoteString(error))

\* C21: a request whose invocation failed is answered with a JSON object
\* whose success field is false and whose error field is the message of the
\* error, which is not empty.
C21_FailureIsInvokeResponse ==
    \A r \in Requests :
        (handlers[r].pc = "done" /\ handlers[r].outcome \notin {"none", "ok"})
        => IsFailureResponse(handlers[r].body, ErrorTextOf(handlers[r].outcome))

\* the service names that the body lists: those of doms, or those of
\* data.services when the body has no doms
ListedNames(body) ==
    LET names == IF Field(body, "doms").kind = "[]interface{}"
                 THEN Field(body, "doms")
                 ELSE Field(Field(body, "data"), "services")
    IN  [i \in DOMAIN names.items |-> names.items[i].text]

\* C28: when GetServiceList accepts a response of status 200 whose body is
\* in one of the two envelopes, the services it returns are the names that
\* the body lists, in doms or in data.services.
C28_ReturnsListedNames ==
    (/\ nacos.listEnd = "accepted"
     /\ AcceptableList(nacos.listLog[Len(nacos.listLog)]))
    => nacos.Services = ListedNames(nacos.listLog[Len(nacos.listLog)].body)

(***************************************************************************)
(* Further claims about GenericInvoke, checked under Spec.                 *)
(***************************************************************************)

\* some span of the text is one JSON value
HasParsingSpan(text) ==
    \E i \in 1..Len(text) : \E j \in i..Len(text) : UnmarshalOK(Sub(text, i, j))

\* C22: a call whose decoded response holds neither the null token nor a
\* span that parses fails with the no-valid-response error, and what a call
\* returns as its result is the null token or text that parses.
C22_NoValidPayloadFails ==
    (pc = "returned" /\ state = "Complete") =>
        /\ (/\ ~HasErrorPhrase(convertToUTF8(responseBuffer))
            /\ ~Contains(convertToUTF8(responseBuffer), NullToken)
            /\ ~HasParsingSpan(convertToUTF8(responseBuffer)))
           => (~ret.ok /\ ret.err = "NoValidResponse")
        /\ ret.ok => (ret.val = NullToken \/ UnmarshalOK(ret.val))

\* none of the other completion heuristics matches the text: no marker of
\* the console, no null token, no error phrase, no bracket and no brace
NoOtherHeuristic(text) ==
    /\ ~LoopBreak(text) /\ ~isResponseComplete(text)
    /\ ~HasErrorPhrase(text) /\ ~Contains(text, NullToken)
    /\ \A i \in DOMAIN text : text[i] \notin {"[", "{"}

\* C25: once three chunks, each smaller than the read buffer, have been
\* read and no other completion heuristic matches the text read, the call is
\* Complete and reads no more.
C25_ThreeSmallChunksComplete ==
    (reads >= 3 /\ NoOtherHeuristic(responseBuffer))
    => (pc = "returned" /\ state = "Complete")

\* C30: no call reaches the write of its command without a connection:
\* whatever the kind of the registry, the client has a connection when it
\* writes, and each command written went to a connection that was dialled.
C30_NeverWritesWithoutConnection ==
    /\ pc # "panic"
    /\ \A i \in DOMAIN sentLog : sentLog[i].conn \in DOMAIN conns

\* the two name the same namespace of Nacos: no identifier and "public" both
\* name the default namespace
SameNamespace(a, b) == a = b \/ {a, b} \subseteq {<< >>, <<"public">>}

\* C33: the namespace identifier that the detail requests of a load send is
\* the one that its service-list requests sent, also when the configured
\* namespace is a display name.
C33_SameNamespaceForDetails ==
    nacos.detailLog # << >> => SameNamespace(nacos.detailSent, nacos.sent)

(***************************************************************************)
(* Further claims about the ZooKeeper registry, checked under SpecRegistry.*)
(***************************************************************************)

\* the nodes below the base path that have a child named providers and lie
\* below no other such node
ServiceNodes ==
    {p \in DOMAIN zk.tree :
        /\ Len(p) >= 2 /\ p[1] = "dubbo"
        /\ (p \o <<"providers">>) \in DOMAIN zk.tree
        /\ \A n \in 2..(Len(p) - 1) : (Sub(p, 1, n) \o <<"providers">>) \notin DOMAIN zk.tree}

\* the node p and its providers child are read without a failure of the
\* node itself, of the child or of a node above them
ReadsWell(p) ==
    \A n \in 1..(Len(p) + 1) : Sub(p \o <<"providers">>, 1, n) \notin zk.broken

\* C26: on a registry whose nodes all read, the catalog has each node with a
\* child named providers once, by its name, and nothing else: a node without
\* that child is not in the catalog, and the services below it are.
C26_ServiceIffProviders ==
    (catalog.ok /\ zk.broken = {}) =>
        /\ {catalog.services[i] : i \in DOMAIN catalog.services}
               = {p[Len(p)] : p \in ServiceNodes}
        /\ Len(catalog.services) = Cardinality(ServiceNodes)

\* the catalog of a registry with a service at the base path and a service
\* in a group: the group is not in the catalog, its service is
C26_Witness ==
    /\ catalog.ok /\ zk.broken = {}
    /\ <<"dubbo", "grp", "pkg.SvcB">> \in DOMAIN zk.tree
    /\ catalog.services = <<"pkg.SvcA", "pkg.SvcB">>

\* C32: a service that the catalog of a ZooKeeper registry names is found by
\* the lookup of its provider: the providers node that the lookup reads is the
\* one the walk found below the node of the service, at whatever depth.
C32_ListedIsResolvable ==
    (/\ catalog.ok /\ provider.err # "pending"
     /\ \E i \in DOMAIN catalog.services : catalog.services[i] = provider.of) =>
        /\ provider.err # "NoSuchService"
        /\ \E p \in ServiceNodes :
              p[Len(p)] = provider.of /\ p = <<"dubbo", provider.of>>

RECURSIVE NestingError(_, _, _, _)
NestingError(s, i, open, inQuotes) ==
    IF i > Len(s) THEN (IF open = << >> THEN 0 ELSE Len(s) + 1)
    ELSE IF inQuotes THEN
        (IF s[i] = "\\" THEN NestingError(s, i + 2, open, TRUE)
         ELSE NestingError(s, i + 1, open, s[i] # "\""))
    ELSE IF s[i] = "\"" THEN NestingError(s, i + 1, open, TRUE)
    ELSE IF s[i] \in {"{", "["} THEN NestingError(s, i + 1, Append(open, s[i]), FALSE)
    ELSE IF s[i] \in {"}", "]"} THEN
        (IF open # << >> /\ open[Len(open)] = (IF s[i] = "}" THEN "{" ELSE "[")
         THEN NestingError(s, i + 1, Sub(open, 1, Len(open) - 1), FALSE)
         ELSE i)
    ELSE NestingError(s, i + 1, open, FALSE)

\* C23: a call expression whose brackets or braces are not well nested is
\* rejected: it is not split into a service, a method and arguments.
C23_MalformedNestingRejected ==
    (/\ tool.fn = "parseInvokeExpression" /\ tool.pc = "done"
     /\ NestingError(tool.input, 1, << >>, FALSE) # 0)
    => tool.out = NoParse

\* the positions of s at which a top-level object of the array ends: the
\* text up to there, closed with "]", is an array
ClosedObjectEnds(s) ==
    {e \in 2..Len(s) : s[e] = "}" /\ UnmarshalOK(Sub(s, 1, e) \o <<"]">>)}

\* C24: the repair of a truncated array of objects returns the text up to
\* the end of the last top-level object that is closed, followed by "]", and
\* returns nothing when no top-level object is closed.
C24_RepairToLastClosedObject ==
    (tool.fn = "fixIncompleteJSON" /\ tool.pc = "done") =>
        tool.out =
            IF ClosedObjectEnds(tool.input) = {} THEN << >>
            ELSE Sub(tool.input, 1,
                     CHOOSE e \in ClosedObjectEnds(tool.input) :
                        \A f \in ClosedObjectEnds(tool.input) : f <= e) \o <<"]">>

\* the spans of s that start with "[" and end with "]", or start with "{" and
\* end with "}", and are one JSON value
ParsingSpans(s) ==
    {Sub(s, i, j) : <<i, j>> \in
        {p \in (1..Len(s)) \X (1..Len(s)) :
            /\ p[1] < p[2]
            /\ <<s[p[1]], s[p[2]]>> \in {<<"[", "]">>, <<"{", "}">>}
            /\ UnmarshalOK(Sub(s, p[1], p[2]))}}

\* C29: what extractLargestJSON returns is empty or one of the spans of the
\* text that parse, and no span of the text that parses is longer.
C29_LargestParsingSpan ==
    (tool.fn = "extractLargestJSON" /\ tool.pc = "done") =>
        /\ tool.out = << >> \/ tool.out \in ParsingSpans(tool.input)
        /\ \A span \in ParsingSpans(tool.input) : Len(span) <= Len(tool.out)

(***************************************************************************)
(* The claims about the background workers, checked under SpecWorkers and  *)
(* SpecWorkersLive.                                                        *)
(***************************************************************************)

\* C36: stopping the StreamProcessor never makes its goroutine send on a
\* closed channel: no send to resultCh happens after resultCh is closed.
C36_NoSendOnClosedChannel == sp.pc # "panic"

\* C38: AsyncProcessor.Stop always returns: once it has cancelled the
\* context, every worker returns and the wait for the workers ends.
C38_StopReturns == (ap.stop = "waiting") ~> (ap.stop = "returned")

\* Stop has returned although a task was run, a task is still queued and
\* the dispatcher had a worker in hand
C38_Witness ==
    /\ ap.stop = "returned"
    /\ \A w \in Workers : ap.worker[w].pc = "exited"
    /\ ap.called # {} /\ ap.taskQueue # << >>

\* C39: once AsyncProcessor.Stop has returned, SubmitTask accepts no task:
\* it returns the processor-closed error.
C39_NoSubmitAfterStop ==
    \A i \in DOMAIN ap.submits :
        ap.submits[i].afterStop => ap.submits[i].result = "closed"

(***************************************************************************)
(* The claim about the clients of the web server, checked under            *)
(* SpecClients.                                                            *)
(***************************************************************************)

\* C37: when a handler has returned, the client it made has no provider
\* connection open and no background goroutine running, on the success path
\* and on every error path, a failed construction included.
C37_NothingOutlivesRequest ==
    \A r \in Requests :
        served[r].pc = "done" =>
            served[r].workers # "running" /\ served[r].conn # "open"

====
